---- MODULE Spec2Model ----
(***************************************************************************)
(* City infrastructure mitigation: the directive applier, the fallback    *)
(* pruner and the mitigate pipeline of                                     *)
(* src/mitigation/city_infrastructure_network.py, and the graph mutator    *)
(* with connectivity repair of src/mitigation/server.py.                   *)
(*                                                                         *)
(* A Python string is held whole; Chars gives its characters, on which    *)
(* lower(), strip(), split() and the substring test are computed.          *)
(* Edge weights are held as the SQUARE of the Euclidean distance (an exact *)
(* integer on the integer layouts used here); "weight > 5.0" is therefore  *)
(* "weight > 25" and comparisons of distances are comparisons of squares.  *)
(***************************************************************************)
EXTENDS Integers, Sequences, FiniteSets, TLC

VARIABLES
    pc,               \* position of the running function
    name, result,     \* _fuzzy_find: its argument and its return value
    lid,              \* label -> node id dictionary, in insertion order
    graphs,           \* the heap of graph objects: reference -> graph value
    pos,              \* node id -> (x, y)
    G, M,             \* references held by the locals G and M (G_opt in server.py)
    directions,       \* what the directive source delivers
    groq_directions,  \* mitigate's local: the directive handed to the applier
    calamity_names,   \* active threat names
    changes,          \* the ChangeLog
    applied,          \* count of applied operations
    nxt,              \* next fresh node id of the add_nodes loop
    i,                \* index of the next record of the list being processed
    groq_response,    \* server.py: the response handed to apply_optimizations
    opt_changes,      \* server.py: the dictionary of four change lists
    elements,         \* _build_graph_osm: the element list it is handed
    centre,           \* _build_graph_osm: (clat, clon)
    city_name, seed,  \* _generate_procedural: its arguments
    city_radius,      \* cr, the radius the edge builders are handed
    mt19937,          \* seed -> the numbers a generator seeded with it yields
    rng,              \* the generator object of the running call
    scipy,            \* how the library settles ties: equal distances, points on one circle
    hc, plan,         \* _generate_procedural: the hood centres, the nodes still to place
    runs,             \* what the completed calls returned, in call order
    adj               \* _build_adj: the dictionary under construction

\* the state of the graph builders and of the adjacency listing
buildVars == <<elements, centre, city_name, seed, city_radius, mt19937, rng, scipy,
               hc, plan, runs, adj>>

vars == <<pc, name, result, lid, graphs, pos, G, M, directions, groq_directions,
          calamity_names, changes, applied, nxt, i, groq_response, opt_changes,
          elements, centre, city_name, seed, city_radius, mt19937, rng, scipy,
          hc, plan, runs, adj>>

-----------------------------------------------------------------------------
(* Bounds of the model *)

MaxLabels == 3    \* entries of the label dictionary handed to _fuzzy_find alone

-----------------------------------------------------------------------------
(* Python values.  A string is held whole; Chars gives its characters. *)

None == -1        \* Python None where a node id is expected
Raised == -2      \* an exception left the call

\* no generator has been made
NoRng == [seed |-> None, drawn |-> 0]

Str(x) == [tag |-> "str", s |-> x]
NoneV == [tag |-> "none", s |-> ""]        \* the value None
IntV == [tag |-> "int", s |-> ""]          \* a non-zero number where a string is expected
Missing == [tag |-> "missing", s |-> ""]   \* the key is absent from the record

\* dict.get(key, default)
Get(v, default) == IF v.tag = "missing" THEN default ELSE v

-----------------------------------------------------------------------------
(* Strings *)

S_Hospital1 == <<"H", "o", "s", "p", "i", "t", "a", "l", " ", "#", "1">>
S_Hospital10 == <<"H", "o", "s", "p", "i", "t", "a", "l", " ", "#", "1", "0">>
S_Shelter1 == <<"B", "u", "n", "k", "e", "r", "/", "S", "h", "e", "l", "t", "e", "r", " ", "#", "1">>
S_Fire1 == <<"F", "i", "r", "e", " ", "S", "t", "a", "t", "i", "o", "n", " ", "#", "1">>
S_Grocery1 == <<"G", "r", "o", "c", "e", "r", "y", " ", "S", "t", "o", "r", "e", " ", "#", "1">>
S_Grocery2 == <<"G", "r", "o", "c", "e", "r", "y", " ", "S", "t", "o", "r", "e", " ", "#", "2">>
S_Substation1 == <<"S", "u", "b", "s", "t", "a", "t", "i", "o", "n", " ", "#", "1">>
S_Intersection == <<"I", "n", "t", "e", "r", "s", "e", "c", "t", "i", "o", "n">>
S_hospital1 == <<"h", "o", "s", "p", "i", "t", "a", "l", " ", "#", "1">>
S_firestation2 == <<"f", "i", "r", "e", " ", "s", "t", "a", "t", "i", "o", "n", " ", "#", "2">>
S_HospitalWord == <<"H", "o", "s", "p", "i", "t", "a", "l">>
S_Nowhere == <<"N", "o", "w", "h", "e", "r", "e">>
S_Camp == <<"E", "m", "e", "r", "g", "e", "n", "c", "y", " ", "C", "a", "m", "p">>
S_EmergencyNode == <<"E", "m", "e", "r", "g", "e", "n", "c", "y", "_", "N", "o", "d", "e", "_">>
S_FireStation == <<"F", "i", "r", "e", " ", "S", "t", "a", "t", "i", "o", "n">>
S_GroceryStore == <<"G", "r", "o", "c", "e", "r", "y", " ", "S", "t", "o", "r", "e">>
S_PowerPlant == <<"P", "o", "w", "e", "r", " ", "P", "l", "a", "n", "t">>
S_Substation == <<"S", "u", "b", "s", "t", "a", "t", "i", "o", "n">>
S_Flood == <<"F", "l", "o", "o", "d">>
S_Earthquake == <<"E", "a", "r", "t", "h", "q", "u", "a", "k", "e">>
S_flood == <<"f", "l", "o", "o", "d">>
S_earthquake == <<"e", "a", "r", "t", "h", "q", "u", "a", "k", "e">>

\* str(n) for a natural number
RECURSIVE ToStr(_)
ToStr(n) ==
    LET digit == <<"0", "1", "2", "3", "4", "5", "6", "7", "8", "9">>
    IN  IF n < 10 THEN <<digit[n + 1]>> ELSE ToStr(n \div 10) \o <<digit[(n % 10) + 1]>>

\* f"Emergency_Node_{nxt}"
EmergencyNodeName(n) ==
    CASE n = 6 -> "Emergency_Node_6" [] n = 7 -> "Emergency_Node_7"
      [] n = 8 -> "Emergency_Node_8" [] n = 9 -> "Emergency_Node_9"
      [] n = 10 -> "Emergency_Node_10" [] n = 11 -> "Emergency_Node_11"

\* the characters of a string
Chars(x) ==
    CASE x = "" -> <<>>
      [] x = " " -> <<" ">>
      [] x = "Hospital #1" -> S_Hospital1
      [] x = "Hospital #10" -> S_Hospital10
      [] x = "Bunker/Shelter #1" -> S_Shelter1
      [] x = "Fire Station #1" -> S_Fire1
      [] x = "Grocery Store #1" -> S_Grocery1
      [] x = "Grocery Store #2" -> S_Grocery2
      [] x = "Substation #1" -> S_Substation1
      [] x = "Intersection" -> S_Intersection
      [] x = "hospital #1" -> S_hospital1
      [] x = "fire station #2" -> S_firestation2
      [] x = "Hospital" -> S_HospitalWord
      [] x = "Fire Station" -> S_FireStation
      [] x = "Grocery Store" -> S_GroceryStore
      [] x = "Power Plant" -> S_PowerPlant
      [] x = "Substation" -> S_Substation
      [] x = "Nowhere" -> S_Nowhere
      [] x = "Emergency Camp" -> S_Camp
      [] x = "Flood" -> S_Flood
      [] x = "Earthquake" -> S_Earthquake
      [] x = "flood" -> S_flood
      [] x = "earthquake" -> S_earthquake
      [] x = "Emergency_Node_6" -> S_EmergencyNode \o ToStr(6)
      [] x = "Emergency_Node_7" -> S_EmergencyNode \o ToStr(7)
      [] x = "Emergency_Node_8" -> S_EmergencyNode \o ToStr(8)
      [] x = "Emergency_Node_9" -> S_EmergencyNode \o ToStr(9)
      [] x = "Emergency_Node_10" -> S_EmergencyNode \o ToStr(10)
      [] x = "Emergency_Node_11" -> S_EmergencyNode \o ToStr(11)

\* str.lower() on one character
LowerChar(c) ==
    CASE c = "B" -> "b" [] c = "C" -> "c" [] c = "E" -> "e" [] c = "F" -> "f"
      [] c = "G" -> "g" [] c = "H" -> "h" [] c = "I" -> "i" [] c = "N" -> "n"
      [] c = "S" -> "s" [] OTHER -> c

\* s.lower(), on characters
Lower(s) == [k \in 1..Len(s) |-> LowerChar(s[k])]

\* s.strip(): leading and trailing whitespace removed
Strip(s) ==
    LET inked == {k \in 1..Len(s) : s[k] # " "}
    IN  IF inked = {} THEN <<>>
        ELSE LET a == CHOOSE k \in inked : \A m \in inked : k <= m
                 b == CHOOSE k \in inked : \A m \in inked : k >= m
             IN  SubSeq(s, a, b)

\* a in b, for strings
IsSubstring(a, b) ==
    \E k \in 0..(Len(b) - Len(a)) : SubSeq(b, k + 1, k + Len(a)) = a

\* set(s.split()): the maximal runs of non-blank characters
Words(s) ==
    LET starts == {a \in 1..Len(s) : s[a] # " " /\ (a = 1 \/ s[a - 1] = " ")}
        EndOf(a) == CHOOSE b \in a..Len(s) :
                        /\ \A k \in a..b : s[k] # " "
                        /\ (b = Len(s) \/ s[b + 1] = " ")
    IN  {SubSeq(s, a, EndOf(a)) : a \in starts}

MaxOf(S) == CHOOSE x \in S : \A y \in S : y <= x
MinOf(S) == CHOOSE x \in S : \A y \in S : x <= y

-----------------------------------------------------------------------------
(* Dictionaries in insertion order: sequences of [label, nid] with distinct labels *)

DictKeys(d) == {d[k].label : k \in 1..Len(d)}

DictGet(d, key) == d[CHOOSE k \in 1..Len(d) : d[k].label = key].nid

\* d[key] = nid: an existing key keeps its place, a new key goes last
DictSet(d, key, nid) ==
    IF key \in DictKeys(d)
    THEN [k \in 1..Len(d) |-> IF d[k].label = key THEN [label |-> key, nid |-> nid] ELSE d[k]]
    ELSE Append(d, [label |-> key, nid |-> nid])

-----------------------------------------------------------------------------
(* _fuzzy_find *)

\* name_lower = name.lower().strip()
NameLower(n) == Strip(Lower(Chars(n)))

\* the test of each of the four loops, on one label; nl is name_lower
RuleExact(n, label) == label = n
RuleCaseInsensitive(nl, label) == Strip(Lower(Chars(label))) = nl
RuleSubstring(nl, label) ==
    \/ IsSubstring(nl, Lower(Chars(label)))
    \/ IsSubstring(Lower(Chars(label)), nl)
RuleWords(nl, label) ==
    Cardinality(Words(nl) \cap Words(Lower(Chars(label)))) >= 2

Rule(r, n, nl, label) ==
    CASE r = 1 -> RuleExact(n, label)
      [] r = 2 -> RuleCaseInsensitive(nl, label)
      [] r = 3 -> RuleSubstring(nl, label)
      [] OTHER -> RuleWords(nl, label)

\* return nid, at the first entry in iteration order among those that pass
FirstOf(d, hits) == IF hits = {} THEN None ELSE d[MinOf(hits)].nid

\* one loop: the value of the first entry, in iteration order, that passes rule r
FirstMatch(r, n, nl, d) == FirstOf(d, {k \in 1..Len(d) : Rule(r, n, nl, d[k].label)})

\* a loop that returned ends the function, else the next loop runs
OrElse(hit, rest) == IF hit # None THEN hit ELSE rest

\* a faulty variant: one loop that tries the four rules on each label in turn
SinglePass(r, n, nl, d) ==
    FirstOf(d, {k \in 1..Len(d) : \E q \in 1..4 : Rule(q, n, nl, d[k].label)})

\* the four loops one after the other, each over the whole dictionary
RECURSIVE FuzzyRules(_, _, _, _)
FuzzyRules(r, n, nl, d) ==
    IF r > 4 THEN None
    ELSE OrElse(FirstMatch(r, n, nl, d), FuzzyRules(r + 1, n, nl, d))

\* _fuzzy_find(name, lid); v is a Python value
FuzzyFind(v, d) ==
    IF v.tag = "none" \/ (v.tag = "str" /\ v.s = "") THEN None   \* if not name
    ELSE IF v.tag # "str" THEN Raised                             \* name.lower()
    ELSE FuzzyRules(1, v.s, NameLower(v.s), d)

-----------------------------------------------------------------------------
(* networkx.Graph: nodes in insertion order (ascending id here, as both graph   *)
(* builders and the add_nodes loop insert ids in ascending order), one          *)
(* attribute record per node, one attribute record per unordered node pair      *)

EdgeKey(u, v) == {u, v}

HasEdge(g, u, v) == EdgeKey(u, v) \in DOMAIN g.edges

\* G.add_edge(u, v, edge_type=et, weight=w): adds the pair or overwrites its attributes
AddEdge(g, u, v, et, w) ==
    [g EXCEPT !.edges = [e \in (DOMAIN g.edges) \cup {EdgeKey(u, v)} |->
        IF e = EdgeKey(u, v) THEN [edge_type |-> et, weight |-> w] ELSE g.edges[e]]]

\* G.remove_edge(u, v)
RemoveEdge(g, u, v) ==
    [g EXCEPT !.edges = [e \in (DOMAIN g.edges) \ {EdgeKey(u, v)} |-> g.edges[e]]]

\* G.add_node(n, label=..., infra_type=..., category=...)
AddNode(g, n, label, infra_type, category) ==
    [g EXCEPT !.nodes = g.nodes \cup {n},
              !.attr = [m \in g.nodes \cup {n} |->
                  IF m = n THEN [label |-> label, infra_type |-> infra_type,
                                 category |-> category]
                  ELSE g.attr[m]]]

Neighbors(g, u) == {v \in g.nodes : HasEdge(g, u, v)}

RECURSIVE Grow(_, _)
Grow(g, seen) ==
    LET more == seen \cup UNION {Neighbors(g, u) : u \in seen}
    IN  IF more = seen THEN seen ELSE Grow(g, more)

\* the connected component of u
ComponentOf(g, u) == Grow(g, {u})

\* nx.is_connected(G): over the full node set, intersections included
IsConnected(g) == \A u, v \in g.nodes : v \in ComponentOf(g, u)

\* the elements of a set of node ids as a list in node order
RECURSIVE InOrder(_)
InOrder(S) == IF S = {} THEN <<>> ELSE <<MinOf(S)>> \o InOrder(S \ {MinOf(S)})

\* a faulty variant: M = G, the working graph is the input graph itself
SameRef(r) == r

\* the heap: G.copy() allocates a new graph object
CopyRef(r) == r + 1

\* squared Euclidean distance between two positioned nodes
Dist2(p, u, v) ==
    (p[u][1] - p[v][1]) * (p[u][1] - p[v][1]) + (p[u][2] - p[v][2]) * (p[u][2] - p[v][2])

\* INFRASTRUCTURE.get(nt, {}).get("category", "Shelter")
CategoryOf(nt) ==
    CASE nt \in {"Hospital", "Fire Station", "Police Station", "Ambulance Depot"} -> "Emergency"
      [] nt \in {"Bunker/Shelter", "Evacuation Point"} -> "Shelter"
      [] nt \in {"Food Service", "Grocery Store", "Water Supply"} -> "Food"
      [] nt \in {"Power Plant", "Substation", "Telecom Tower", "Water Treatment"} -> "Utility"
      [] OTHER -> "Shelter"

-----------------------------------------------------------------------------
(* The MutationDirective: a dictionary of four lists of records.  A key may be *)
(* absent (Missing), a record may be something that is no dictionary.          *)

List(items) == [tag |-> "list", items |-> items]
EdgeRec(f, t, et) == [tag |-> "obj", from |-> f, to |-> t, edge_type |-> et]
NodeRec(l, nt, ct, et) ==
    [tag |-> "obj", label |-> l, type |-> nt, connect_to |-> ct, edge_type |-> et]
RouteRec(f, t, v, et) == [tag |-> "obj", from |-> f, to |-> t, via |-> v, edge_type |-> et]
NotObj == [tag |-> "notobj"]     \* a list item that is a string or a number

Directive(rm, ad, an, rr) ==
    [tag |-> "dict", remove_edges |-> rm, add_edges |-> ad, add_nodes |-> an, reroute |-> rr]

\* directions.get(key, []) for the four lists, in the order the applier reads them
Phases == <<"remove_edges", "add_edges", "add_nodes", "reroute">>

ListAt(dir, k) ==
    LET l == CASE k = 1 -> dir.remove_edges [] k = 2 -> dir.add_edges
               [] k = 3 -> dir.add_nodes [] OTHER -> dir.reroute
    IN  IF l.tag = "missing" THEN <<>> ELSE l.items

PhaseIndex(p) == CHOOSE k \in 1..4 : Phases[k] = p

\* the first loop, from the k-th on, that has a record to process
RECURSIVE PhaseFrom(_, _)
PhaseFrom(dir, k) ==
    IF k > 4 THEN "returned"
    ELSE IF Len(ListAt(dir, k)) > 0 THEN Phases[k]
    ELSE PhaseFrom(dir, k + 1)

\* number of records over the four lists
Attempted(dir) ==
    Len(ListAt(dir, 1)) + Len(ListAt(dir, 2)) + Len(ListAt(dir, 3)) + Len(ListAt(dir, 4))

-----------------------------------------------------------------------------
(* ChangeLog entries *)

SkipActions == {"remove_edge_skipped", "add_edge_skipped", "reroute_skipped"}
IsSkip(e) == e.action \in SkipActions

\* a faulty variant: the counter counts every record attempted
OutcomeAttempted(g, d, e, n) == [raised |-> FALSE, g |-> g, lid |-> d, entry |-> e, applied |-> 1]

\* the outcome of one loop iteration: the working graph, the dictionary, the
\* ChangeLog entry appended, the increment of the counter, or an exception
Outcome(g, d, e, n) == [raised |-> FALSE, g |-> g, lid |-> d, entry |-> e, applied |-> n]
Raise(g, d) == [raised |-> TRUE, g |-> g, lid |-> d, entry |-> <<>>, applied |-> 0]

-----------------------------------------------------------------------------
(* _apply_llm_directions: one iteration of each of its four loops *)

\* lid = {label: n for n in M.nodes() if label not in ("", "Intersection")}
BuildLid(g) ==
    LET keep == {n \in g.nodes : g.attr[n].label \notin {"", "Intersection"}}
        RECURSIVE Fill(_, _)
        Fill(d, todo) ==
            IF todo = <<>> THEN d
            ELSE Fill(DictSet(d, g.attr[Head(todo)].label, Head(todo)), Tail(todo))
    IN  Fill(<<>>, InOrder(keep))

\* a faulty variant: lid[name] in place of _resolve, a KeyError on an unknown label
RemoveEdgeOpKeyError(g, d, es) ==
    IF FuzzyFind(Get(es.from, Str("")), d) = None \/ FuzzyFind(Get(es.to, Str("")), d) = None
    THEN Raise(g, d)
    ELSE Outcome(RemoveEdge(g, FuzzyFind(Get(es.from, Str("")), d),
                            FuzzyFind(Get(es.to, Str("")), d)), d,
                 [phase |-> "llm_optimization", action |-> "removed_edge",
                  from |-> es.from, to |-> es.to, edge_type |-> Get(es.edge_type, Str("?"))], 1)

\* for es in directions.get("remove_edges", []): ...
RemoveEdgeOp(g, d, es) ==
    IF es.tag # "obj" THEN Raise(g, d)
    ELSE LET fr == FuzzyFind(Get(es.from, Str("")), d)
             to == FuzzyFind(Get(es.to, Str("")), d)
         IN  IF fr = Raised \/ to = Raised THEN Raise(g, d)
             ELSE IF fr # None /\ to # None /\ HasEdge(g, fr, to)
             THEN Outcome(RemoveEdge(g, fr, to), d,
                          [phase |-> "llm_optimization", action |-> "removed_edge",
                           from |-> es.from, to |-> es.to,
                           edge_type |-> Get(es.edge_type, Str("?"))], 1)
             ELSE Outcome(g, d,
                          [phase |-> "llm_optimization", action |-> "remove_edge_skipped",
                           from |-> Get(es.from, NoneV), to |-> Get(es.to, NoneV)], 0)

\* a faulty variant: the edge is added without the test that both ends resolved
AddEdgeOpUnchecked(g, d, es) ==
    Outcome(AddEdge(g, FuzzyFind(Get(es.from, Str("")), d), FuzzyFind(Get(es.to, Str("")), d),
                    Get(es.edge_type, Str("emergency")).s, 1), d,
            [phase |-> "llm_optimization", action |-> "added_edge",
             from |-> Get(es.from, NoneV), to |-> Get(es.to, NoneV),
             edge_type |-> Get(es.edge_type, Str("emergency"))], 1)

\* for es in directions.get("add_edges", []): ...
AddEdgeOp(g, d, es) ==
    IF es.tag # "obj" THEN Raise(g, d)
    ELSE LET fr == FuzzyFind(Get(es.from, Str("")), d)
             to == FuzzyFind(Get(es.to, Str("")), d)
             et == Get(es.edge_type, Str("emergency"))
         IN  IF fr = Raised \/ to = Raised THEN Raise(g, d)
             ELSE IF fr # None /\ to # None
             THEN Outcome(AddEdge(g, fr, to, et.s, 1), d,
                          [phase |-> "llm_optimization", action |-> "added_edge",
                           from |-> es.from, to |-> es.to, edge_type |-> et], 1)
             ELSE Outcome(g, d,
                          [phase |-> "llm_optimization", action |-> "add_edge_skipped",
                           from |-> Get(es.from, NoneV), to |-> Get(es.to, NoneV)], 0)

\* a faulty variant: the new node's edges are emergency edges whatever the record says
RECURSIVE ConnectToEmergency(_, _, _, _, _)
ConnectToEmergency(g, d, n, cls, et) ==
    IF cls = <<>> THEN Outcome(g, d, <<>>, 0)
    ELSE IF FuzzyFind(Head(cls), d) = Raised THEN Raise(g, d)
    ELSE IF FuzzyFind(Head(cls), d) # None
    THEN ConnectToEmergency(AddEdge(g, n, FuzzyFind(Head(cls), d), "emergency", 1), d, n,
                            Tail(cls), et)
    ELSE ConnectToEmergency(g, d, n, Tail(cls), et)

\* for cl in ns.get("connect_to", []): cid = _resolve(cl); if cid is not None: add_edge
RECURSIVE ConnectTo(_, _, _, _, _)
ConnectTo(g, d, n, cls, et) ==
    IF cls = <<>> THEN Outcome(g, d, <<>>, 0)
    ELSE LET cid == FuzzyFind(Head(cls), d)
         IN  IF cid = Raised THEN Raise(g, d)
             ELSE IF cid # None THEN ConnectTo(AddEdge(g, n, cid, et, 1), d, n, Tail(cls), et)
             ELSE ConnectTo(g, d, n, Tail(cls), et)

\* for ns in directions.get("add_nodes", []): ...   (n is nxt)
AddNodeOp(g, d, n, ns) ==
    IF ns.tag # "obj" THEN Raise(g, d)
    ELSE LET label == Get(ns.label, Str(EmergencyNodeName(n)))
             nt == Get(ns.type, Str("Bunker/Shelter"))
             g1 == AddNode(g, n, label.s, nt.s, CategoryOf(nt.s))
             d1 == DictSet(d, label.s, n)
             cls == Get(ns.connect_to, List(<<>>))
             c == ConnectTo(g1, d1, n, cls.items, Get(ns.edge_type, Str("emergency")).s)
         IN  IF c.raised THEN Raise(g, d)
             ELSE Outcome(c.g, d1,
                          [phase |-> "llm_optimization", action |-> "added_node",
                           label |-> label, type |-> nt, connected_to |-> cls.items], 1)

\* for rt in directions.get("reroute", []): ...
RerouteOp(g, d, rt) ==
    IF rt.tag # "obj" THEN Raise(g, d)
    ELSE LET fr == FuzzyFind(Get(rt.from, Str("")), d)
             to == FuzzyFind(Get(rt.to, Str("")), d)
             via == FuzzyFind(Get(rt.via, Str("")), d)
             et == Get(rt.edge_type, Str("emergency")).s
         IN  IF fr = Raised \/ to = Raised \/ via = Raised THEN Raise(g, d)
             ELSE IF fr # None /\ to # None /\ via # None
             THEN LET g1 == IF HasEdge(g, fr, to) THEN RemoveEdge(g, fr, to) ELSE g
                      g2 == AddEdge(AddEdge(g1, fr, via, et, 1), via, to, et, 1)
                  IN  Outcome(g2, d,
                              [phase |-> "llm_optimization", action |-> "rerouted",
                               from |-> rt.from, to |-> rt.to, via |-> rt.via], 1)
             ELSE Outcome(g, d,
                          [phase |-> "llm_optimization", action |-> "reroute_skipped",
                           spec |-> rt], 0)

-----------------------------------------------------------------------------
(* _apply_programmatic_pruning *)

\* a faulty variant: Substation is missing from the set
NON_CRITICAL_FEWER == {"Grocery Store", "Food Service", "Telecom Tower", "Water Supply"}

NON_CRITICAL_TYPES == {"Grocery Store", "Food Service", "Telecom Tower", "Substation", "Water Supply"}

LongRoad2 == 25          \* dist > 5.0, on squared distances

\* a faulty variant: the names are compared as they are written
ThreatensExact(threat, names) == \E k \in 1..Len(names) : Chars(names[k]) = threat

\* name in [c.lower() for c in calamity_names]
Threatens(threat, names) == \E k \in 1..Len(names) : Lower(Chars(names[k])) = threat

\* the road edges that reach a rng.random() comparison: rules 1-3 did not take them
DrawEdges(g) ==
    {e \in DOMAIN g.edges :
        LET ut == g.attr[MinOf(e)].infra_type
            vt == g.attr[MaxOf(e)].infra_type
        IN  /\ g.edges[e].edge_type = "road"
            /\ ~(ut \in NON_CRITICAL_TYPES /\ vt \in NON_CRITICAL_TYPES)
            /\ ~(g.edges[e].weight > LongRoad2)
            /\ ~(ut = "intersection" \/ vt = "intersection")}

\* what the comparisons of one edge can come to: with "flood" the draw against 0.5
\* and, when that one fails, the draw against 0.3 of rule 7; else rule 7's alone
DrawOutcomes(names) ==
    IF Threatens(S_flood, names) THEN {<<TRUE>>, <<FALSE, TRUE>>, <<FALSE, FALSE>>}
    ELSE {<<TRUE>>, <<FALSE>>}

\* the reason edge e is marked for removal, "" when it is kept; dr is the sequence of
\* the outcomes of the rng.random() comparisons the edge consumes
EdgeRule(g, e, names, dr) ==
    LET ut == g.attr[MinOf(e)].infra_type
        vt == g.attr[MaxOf(e)].infra_type
        et == g.edges[e].edge_type
        dist == g.edges[e].weight
    IN  IF et = "road" /\ ut \in NON_CRITICAL_TYPES /\ vt \in NON_CRITICAL_TYPES
        THEN "Road between non-critical nodes"
        ELSE IF et = "road" /\ dist > LongRoad2 THEN "Long-distance road"
        ELSE IF et = "road" /\ (ut = "intersection" \/ vt = "intersection")
        THEN "Road through intersection"
        ELSE IF et = "road" /\ Threatens(S_flood, names) /\ dr[1]
        THEN "Road vulnerable to flood damage"
        ELSE IF et = "power" /\ Threatens(S_earthquake, names)
        THEN IF vt \notin {"Hospital", "Power Plant"} /\ ut \notin {"Hospital", "Power Plant"}
             THEN "Power line to non-critical node"
             ELSE ""
        ELSE IF et = "water" /\ ut \in NON_CRITICAL_TYPES /\ vt \in NON_CRITICAL_TYPES
        THEN "Water pipe between non-critical nodes"
        ELSE IF et = "road" /\ dr[Len(dr)] THEN "Redundant road"
        ELSE ""

\* the edges as a list, by first endpoint in node order and then second
RECURSIVE EdgeList(_)
EdgeList(E) ==
    IF E = {} THEN <<>>
    ELSE LET first == CHOOSE e \in E : \A f \in E :
                          \/ MinOf(e) < MinOf(f)
                          \/ (MinOf(e) = MinOf(f) /\ MaxOf(e) <= MaxOf(f))
         IN  <<first>> \o EdgeList(E \ {first})

\* a faulty variant: the edge is added without the has_edge test
RECURSIVE AddEmergencyAlways(_, _, _, _)
AddEmergencyAlways(g, ch, from, target) ==
    IF from = <<>> THEN [g |-> g, changes |-> ch]
    ELSE AddEmergencyAlways(AddEdge(g, Head(from), target, "emergency", 1),
                            Append(ch, [phase |-> "programmatic_pruning", action |-> "added_edge",
                                        from |-> Str(g.attr[Head(from)].label),
                                        to |-> Str(g.attr[target].label),
                                        edge_type |-> Str("emergency"),
                                        reason |-> "Emergency path"]),
                            Tail(from), target)

\* for each of the nodes in `from`, an emergency edge to `target` unless the pair has one
RECURSIVE AddEmergency(_, _, _, _)
AddEmergency(g, ch, from, target) ==
    IF from = <<>> THEN [g |-> g, changes |-> ch]
    ELSE IF HasEdge(g, Head(from), target) THEN AddEmergency(g, ch, Tail(from), target)
    ELSE AddEmergency(AddEdge(g, Head(from), target, "emergency", 1),
                      Append(ch, [phase |-> "programmatic_pruning", action |-> "added_edge",
                                  from |-> Str(g.attr[Head(from)].label),
                                  to |-> Str(g.attr[target].label),
                                  edge_type |-> Str("emergency"), reason |-> "Emergency path"]),
                      Tail(from), target)

\* _apply_programmatic_pruning on the copy g; draws maps each edge of DrawEdges(g) to
\* the outcomes of its comparisons
PruneOp(g, names, draws) ==
    LET NoDraw == <<FALSE>>
        reason == [e \in DOMAIN g.edges |->
                      EdgeRule(g, e, names, IF e \in DOMAIN draws THEN draws[e] ELSE NoDraw)]
        marked == {e \in DOMAIN g.edges : reason[e] # ""}
        order == EdgeList(marked)
        removed == [k \in 1..Len(order) |->
                       [phase |-> "programmatic_pruning", action |-> "removed_edge",
                        from |-> Str(g.attr[MinOf(order[k])].label),
                        to |-> Str(g.attr[MaxOf(order[k])].label),
                        edge_type |-> Str(g.edges[order[k]].edge_type),
                        reason |-> reason[order[k]]]]
        g1 == [g EXCEPT !.edges = [e \in (DOMAIN g.edges) \ marked |-> g.edges[e]]]
        hospitals == InOrder({n \in g.nodes : g.attr[n].infra_type = "Hospital"})
        shelters == InOrder({n \in g.nodes :
                                g.attr[n].infra_type \in {"Bunker/Shelter", "Evacuation Point"}})
        fire_stations == InOrder({n \in g.nodes : g.attr[n].infra_type = "Fire Station"})
        a1 == IF hospitals # <<>> /\ shelters # <<>>
              THEN AddEmergency(g1, removed, hospitals, shelters[1])
              ELSE [g |-> g1, changes |-> removed]
    IN  IF fire_stations # <<>> /\ hospitals # <<>>
        THEN AddEmergency(a1.g, a1.changes, fire_stations, hospitals[1])
        ELSE a1

-----------------------------------------------------------------------------
(* Base graphs: six positioned nodes, edge weights the distance at construction *)

BasePos == <<>> @@ (0 :> <<0, 0>>) @@ (1 :> <<2, 0>>) @@ (2 :> <<0, 2>>)
                @@ (3 :> <<6, 0>>) @@ (4 :> <<6, 2>>) @@ (5 :> <<3, 1>>)

NodeAttr(label, it) == [label |-> label, infra_type |-> it, category |-> CategoryOf(it)]

BaseAttr == <<>> @@ (0 :> NodeAttr("Hospital #1", "Hospital"))
                 @@ (1 :> NodeAttr("Bunker/Shelter #1", "Bunker/Shelter"))
                 @@ (2 :> NodeAttr("Fire Station #1", "Fire Station"))
                 @@ (3 :> NodeAttr("Grocery Store #1", "Grocery Store"))
                 @@ (4 :> NodeAttr("Substation #1", "Substation"))
                 @@ (5 :> [label |-> "Intersection", infra_type |-> "intersection",
                           category |-> "road"])

\* a graph over the base nodes from a set of <<u, v, edge_type>>
BaseGraph(es) ==
    [nodes |-> DOMAIN BaseAttr, attr |-> BaseAttr,
     edges |-> [e \in {EdgeKey(t[1], t[2]) : t \in es} |->
                   LET t == CHOOSE x \in es : EdgeKey(x[1], x[2]) = e
                   IN  [edge_type |-> t[3], weight |-> Dist2(BasePos, t[1], t[2])]]]

\* a road mesh with utility and emergency edges over it
GraphMesh == BaseGraph({<<0, 1, "road">>, <<0, 2, "emergency">>, <<1, 2, "road">>,
                        <<1, 5, "road">>, <<3, 5, "road">>, <<3, 4, "road">>,
                        <<0, 4, "power">>, <<0, 3, "road">>})

\* a tree: every edge is a bridge
GraphTree == BaseGraph({<<0, 1, "road">>, <<0, 2, "emergency">>, <<1, 3, "road">>,
                        <<3, 4, "power">>, <<4, 5, "road">>})

BaseGraphs == {GraphMesh, GraphTree}

NoGraph == [nodes |-> {}, attr |-> <<>>, edges |-> <<>>]

Refs == 1..3

-----------------------------------------------------------------------------
(* Directives the source may deliver *)

MaxOps == 3       \* records of a directive, over its four lists

nH == Str("Hospital #1")
nh == Str("hospital #1")
nS == Str("Bunker/Shelter #1")
nF == Str("Fire Station #1")
nG == Str("Grocery Store #1")
nX == Str("Nowhere")
nC == Str("Emergency Camp")

RemovePool == {EdgeRec(nh, nS, Str("road")), EdgeRec(nS, nG, Missing), EdgeRec(nH, nX, Missing)}
AddPool == {EdgeRec(nH, nG, Missing), EdgeRec(nS, nF, Str("road")), EdgeRec(nX, Missing, Missing)}
NodePool == {NodeRec(nC, Missing, List(<<nX>>), Missing),
             NodeRec(nC, Str("Hospital"), List(<<nh, nX>>), Str("road")),
             NodeRec(Missing, Missing, Missing, Missing)}
RoutePool == {RouteRec(nH, nS, nF, Missing), RouteRec(nH, nX, nS, Missing),
              RouteRec(nS, nG, nC, Str("road"))}

\* the directives with at most n records, each list drawn from its pool
DirectivesUpTo(n) ==
    UNION {{Directive(List(rm), List(ad), List(an), List(rr)) :
               rm \in [1..sh[1] -> RemovePool], ad \in [1..sh[2] -> AddPool],
               an \in [1..sh[3] -> NodePool], rr \in [1..sh[4] -> RoutePool]} :
           sh \in {x \in (0..n) \X (0..n) \X (0..n) \X (0..n) : x[1] + x[2] + x[3] + x[4] <= n}}

DirectivePool == DirectivesUpTo(MaxOps)

\* mitigate's stand-in when the directive source fails
EmptyDirective == Directive(List(<<>>), List(<<>>), List(<<>>), List(<<>>))

ThreatLists == {<<>>, <<"Flood">>, <<"Earthquake">>}

-----------------------------------------------------------------------------
(* mitigate *)

FallbackThreshold == 3

\* a faulty variant: if llm_applied <= 3
NeedsFallbackLoose(n) == n <= FallbackThreshold

\* if llm_applied < 3
NeedsFallback(n) == n < FallbackThreshold

IdleFuzzy == name = NoneV /\ result = None
IdleBuild ==
    /\ elements = <<>> /\ centre = <<0, 0>> /\ city_name = "" /\ seed = None
    /\ city_radius = None /\ mt19937 = <<>> /\ rng = NoRng /\ scipy = "idle"
    /\ hc = <<>> /\ plan = <<>> /\ runs = <<>> /\ adj = <<>>
IdleOptimize == groq_response = NoneV /\ opt_changes = <<>>

Init ==
    /\ pc = "ask"
    /\ \E g \in BaseGraphs : graphs = [r \in Refs |-> IF r = 1 THEN g ELSE NoGraph]
    /\ pos = BasePos
    /\ G = 1 /\ M = 0
    /\ calamity_names \in ThreatLists
    /\ directions = NoneV /\ groq_directions = NoneV
    /\ changes = <<>> /\ applied = 0 /\ lid = <<>> /\ nxt = 0 /\ i = 0
    /\ IdleFuzzy /\ IdleOptimize
    /\ IdleBuild

\* groq_directions = _ask_groq(...): the source delivers a directive
AskGroqOk ==
    /\ pc = "ask"
    /\ \E d \in DirectivePool : groq_directions' = d /\ directions' = d
    /\ pc' = "apply"
    /\ UNCHANGED <<name, result, lid, graphs, pos, G, M, calamity_names, changes,
                   applied, nxt, i, groq_response, opt_changes>>
    /\ UNCHANGED buildVars

\* except Exception: the source failed, the empty directive stands in
AskGroqFail ==
    /\ pc = "ask"
    /\ groq_directions' = EmptyDirective /\ directions' = EmptyDirective
    /\ pc' = "apply"
    /\ UNCHANGED <<name, result, lid, graphs, pos, G, M, calamity_names, changes,
                   applied, nxt, i, groq_response, opt_changes>>
    /\ UNCHANGED buildVars

\* _apply_llm_directions up to its first loop: M = G.copy(), the label dictionary
ApplyStart ==
    /\ pc = "apply"
    /\ IF directions.tag # "dict"
       THEN /\ pc' = "raised"
            /\ UNCHANGED <<M, graphs, changes, applied, lid, nxt, i>>
       ELSE /\ M' = CopyRef(G)
            /\ graphs' = [graphs EXCEPT ![CopyRef(G)] = graphs[G]]
            /\ changes' = <<>>
            /\ applied' = 0
            /\ lid' = BuildLid(graphs[G])
            /\ nxt' = IF graphs[G].nodes = {} THEN 0 ELSE MaxOf(graphs[G].nodes) + 1
            /\ i' = 1
            /\ pc' = PhaseFrom(directions, 1)
    /\ UNCHANGED <<name, result, pos, G, directions, groq_directions, calamity_names,
                   groq_response, opt_changes>>
    /\ UNCHANGED buildVars

\* the record the loop at pc is at
Recs == ListAt(directions, PhaseIndex(pc))
Rec == Recs[i]

\* one iteration of the loop over the list named p, r the outcome of its body
Loop(p, r) ==
    /\ pc = p
    /\ IF r.raised
       THEN /\ pc' = "raised"
            /\ UNCHANGED <<graphs, lid, changes, applied, nxt, i>>
       ELSE /\ graphs' = [graphs EXCEPT ![M] = r.g]
            /\ lid' = r.lid
            /\ changes' = Append(changes, r.entry)
            /\ applied' = applied + r.applied
            /\ nxt' = IF p = "add_nodes" THEN nxt + 1 ELSE nxt
            /\ i' = IF i < Len(Recs) THEN i + 1 ELSE 1
            /\ pc' = IF i < Len(Recs) THEN p ELSE PhaseFrom(directions, PhaseIndex(p) + 1)
    /\ UNCHANGED <<name, result, pos, G, M, directions, groq_directions, calamity_names,
                   groq_response, opt_changes>>
    /\ UNCHANGED buildVars

RemoveEdges == Loop("remove_edges", RemoveEdgeOp(graphs[M], lid, Rec))
AddEdges == Loop("add_edges", AddEdgeOp(graphs[M], lid, Rec))
AddNodes == Loop("add_nodes", AddNodeOp(graphs[M], lid, nxt, Rec))
Reroute == Loop("reroute", RerouteOp(graphs[M], lid, Rec))

\* a faulty variant: the pruner's entries are put before the applier's
ProgrammaticPruningFirst ==
    /\ pc = "returned"
    /\ NeedsFallback(applied)
    /\ \E draws \in [DrawEdges(graphs[M]) -> DrawOutcomes(calamity_names)] :
          LET r == PruneOp(graphs[M], calamity_names, draws)
          IN  /\ graphs' = [graphs EXCEPT ![CopyRef(M)] = r.g]
              /\ changes' = r.changes \o changes
    /\ M' = CopyRef(M)
    /\ pc' = "done"
    /\ UNCHANGED <<name, result, lid, pos, G, directions, groq_directions, calamity_names,
                   applied, nxt, i, groq_response, opt_changes>>
    /\ UNCHANGED buildVars

\* if llm_applied < 3: M, prog_changes = _apply_programmatic_pruning(M, calamity_names)
ProgrammaticPruning ==
    /\ pc = "returned"
    /\ NeedsFallback(applied)
    /\ \E draws \in [DrawEdges(graphs[M]) -> DrawOutcomes(calamity_names)] :
          LET r == PruneOp(graphs[M], calamity_names, draws)
          IN  /\ graphs' = [graphs EXCEPT ![CopyRef(M)] = r.g]
              /\ changes' = changes \o r.changes
    /\ M' = CopyRef(M)
    /\ pc' = "done"
    /\ UNCHANGED <<name, result, lid, pos, G, directions, groq_directions, calamity_names,
                   applied, nxt, i, groq_response, opt_changes>>
    /\ UNCHANGED buildVars

\* llm_applied >= 3: the applier's graph is the mitigated graph
NoFallback ==
    /\ pc = "returned"
    /\ ~NeedsFallback(applied)
    /\ pc' = "done"
    /\ UNCHANGED <<name, result, lid, graphs, pos, G, M, directions, groq_directions,
                   calamity_names, changes, applied, nxt, i, groq_response, opt_changes>>
    /\ UNCHANGED buildVars

Next ==
    \/ AskGroqOk \/ AskGroqFail \/ ApplyStart
    \/ RemoveEdges \/ AddEdges \/ AddNodes \/ Reroute
    \/ ProgrammaticPruning \/ NoFallback

Spec == Init /\ [][Next]_vars

-----------------------------------------------------------------------------
(* _fuzzy_find on its own: an argument and a dictionary from bounded pools *)

LabelPool == {"Hospital #1", "Hospital #10", "Fire Station #1", "Grocery Store #1",
              "Grocery Store #2", "hospital #1"}
NamePool == {"Hospital #1", "hospital #1", "Hospital", "fire station #2", "Nowhere",
             " ", "", "Grocery Store #2"}

\* the dictionaries with at most n entries over the pool, node ids by position
DictsUpTo(n) ==
    {d \in UNION {[1..k -> [label : LabelPool, nid : 0..(n - 1)]] : k \in 0..n} :
        /\ \A a, b \in 1..Len(d) : a # b => d[a].label # d[b].label
        /\ \A a \in 1..Len(d) : d[a].nid = a - 1}

IdlePipeline ==
    /\ graphs = [r \in Refs |-> NoGraph] /\ pos = <<>> /\ G = 0 /\ M = 0
    /\ directions = NoneV /\ groq_directions = NoneV /\ calamity_names = <<>>
    /\ changes = <<>> /\ applied = 0 /\ nxt = 0 /\ i = 0

InitFuzzy ==
    /\ pc = "fuzzy_call"
    /\ name \in {Str(s) : s \in NamePool}
    /\ lid \in DictsUpTo(MaxLabels)
    /\ result = None
    /\ IdlePipeline /\ IdleOptimize
    /\ IdleBuild

FuzzyCall ==
    /\ pc = "fuzzy_call"
    /\ result' = FuzzyFind(name, lid)
    /\ pc' = "fuzzy_done"
    /\ UNCHANGED <<name, lid, graphs, pos, G, M, directions, groq_directions,
                   calamity_names, changes, applied, nxt, i, groq_response, opt_changes>>
    /\ UNCHANGED buildVars

NextFuzzy == FuzzyCall

SpecFuzzy == InitFuzzy /\ [][NextFuzzy]_vars

-----------------------------------------------------------------------------
(* apply_optimizations (server.py): removals, emergency_path additions, repair *)

Response(rm, ad) == [tag |-> "dict", edges_to_remove |-> rm, edges_to_add |-> ad]

\* label_to_id: every node with a non-empty label, intersections included
LabelToId(g) ==
    LET keep == {n \in g.nodes : g.attr[n].label # ""}
        RECURSIVE Fill(_, _)
        Fill(d, todo) ==
            IF todo = <<>> THEN d
            ELSE Fill(DictSet(d, g.attr[Head(todo)].label, Head(todo)), Tail(todo))
    IN  Fill(<<>>, InOrder(keep))

\* label_to_id.get(label): exact lookup
Lookup(d, v) == IF v.tag = "str" /\ v.s \in DictKeys(d) THEN DictGet(d, v.s) ELSE None

NoChanges == [edges_removed |-> <<>>, edges_added |-> <<>>,
              removal_failures |-> <<>>, addition_failures |-> <<>>]

AutoReason == "Auto-added to maintain network connectivity after removals"

\* one iteration of the edges_to_remove loop: the graph and the changes after it
OptRemoveOp(g, d, ch, rec) ==
    LET from_label == Get(rec.from, Str(""))
        to_label == Get(rec.to, Str(""))
        from_id == Lookup(d, from_label)
        to_id == Lookup(d, to_label)
    IN  IF from_id # None /\ to_id # None /\ HasEdge(g, from_id, to_id)
        THEN [g |-> RemoveEdge(g, from_id, to_id),
              changes |-> [ch EXCEPT !.edges_removed = Append(@,
                  [from |-> from_label, to |-> to_label,
                   edge_type |-> g.edges[EdgeKey(from_id, to_id)].edge_type])]]
        ELSE [g |-> g,
              changes |-> [ch EXCEPT !.removal_failures = Append(@,
                  [from |-> from_label, to |-> to_label, reason |-> "Edge not found in graph"])]]

\* one iteration of the edges_to_add loop
OptAddOp(g, p, d, ch, rec) ==
    LET from_label == Get(rec.from, Str(""))
        to_label == Get(rec.to, Str(""))
        from_id == Lookup(d, from_label)
        to_id == Lookup(d, to_label)
    IN  IF from_id # None /\ to_id # None
        THEN [g |-> AddEdge(g, from_id, to_id, "emergency_path", Dist2(p, from_id, to_id)),
              changes |-> [ch EXCEPT !.edges_added = Append(@,
                  [from |-> from_label, to |-> to_label, edge_type |-> "emergency_path",
                   distance |-> Dist2(p, from_id, to_id), reason |-> ""])]]
        ELSE [g |-> g,
              changes |-> [ch EXCEPT !.addition_failures = Append(@,
                  [from |-> from_label, to |-> to_label, reason |-> "Node(s) not found"])]]

\* list(nx.connected_components(G)): the components by their first node in node order
RECURSIVE Components(_, _)
Components(g, todo) ==
    IF todo = {} THEN <<>>
    ELSE <<ComponentOf(g, MinOf(todo))>> \o Components(g, todo \ ComponentOf(g, MinOf(todo)))

\* a faulty variant: best_pair is whichever pair the loops saw
AnyPairs(p, A, B) == A \X B

\* the pairs best_pair can end as: d < best_dist keeps the first pair of least distance
\* in the iteration order of the two sets, which is any pair of least distance
ClosestPairs(p, A, B) ==
    {pr \in A \X B : \A x \in A, y \in B : Dist2(p, pr[1], pr[2]) <= Dist2(p, x, y)}

\* for i in range(len(components) - 1): the outcomes of the loop from index k on
RECURSIVE RepairFrom(_, _, _, _, _)
RepairFrom(g, p, ch, comps, k) ==
    IF k >= Len(comps) THEN {[g |-> g, changes |-> ch]}
    ELSE UNION {RepairFrom(AddEdge(g, pr[1], pr[2], "emergency_path", Dist2(p, pr[1], pr[2])),
                           p,
                           [ch EXCEPT !.edges_added = Append(@,
                               [from |-> Str(g.attr[pr[1]].label), to |-> Str(g.attr[pr[2]].label),
                                edge_type |-> "emergency_path",
                                distance |-> Dist2(p, pr[1], pr[2]), reason |-> AutoReason])],
                           comps, k + 1) :
                pr \in ClosestPairs(p, comps[k], comps[k + 1])}

\* if not nx.is_connected(G_opt): ...
RepairOp(g, p, ch) ==
    IF IsConnected(g) THEN {[g |-> g, changes |-> ch]}
    ELSE RepairFrom(g, p, ch, Components(g, g.nodes), 1)

nI == Str("Intersection")
nU == Str("Substation #1")

OptRemovePool == {EdgeRec(nH, nS, Missing), EdgeRec(nS, nG, Missing), EdgeRec(nU, nI, Missing),
                  EdgeRec(nh, nF, Missing)}
OptAddPool == {EdgeRec(nH, nG, Missing), EdgeRec(nX, nH, Missing)}

\* the responses with at most n records over the two lists
ResponsesUpTo(n) ==
    UNION {{Response(List(rm), List(ad)) :
               rm \in [1..sh[1] -> OptRemovePool], ad \in [1..sh[2] -> OptAddPool]} :
           sh \in {x \in (0..n) \X (0..n) : x[1] + x[2] <= n}}

ResponsePool == ResponsesUpTo(MaxOps)

OptRecs ==
    IF pc = "opt_remove" THEN groq_response.edges_to_remove.items
    ELSE groq_response.edges_to_add.items

\* where control goes when a loop of apply_optimizations is over
AfterRemove == IF Len(groq_response.edges_to_add.items) > 0 THEN "opt_add" ELSE "opt_repair"
AfterStart == IF Len(groq_response.edges_to_remove.items) > 0 THEN "opt_remove" ELSE AfterRemove

InitOpt ==
    /\ pc = "opt"
    /\ \E g \in BaseGraphs : graphs = [r \in Refs |-> IF r = 1 THEN g ELSE NoGraph]
    /\ pos = BasePos
    /\ G = 1 /\ M = 0
    /\ groq_response \in ResponsePool
    /\ opt_changes = NoChanges
    /\ directions = NoneV /\ groq_directions = NoneV /\ calamity_names = <<>>
    /\ changes = <<>> /\ applied = 0 /\ lid = <<>> /\ nxt = 0 /\ i = 0
    /\ IdleFuzzy
    /\ IdleBuild

\* G_opt = G.copy(), label_to_id, changes
OptStart ==
    /\ pc = "opt"
    /\ M' = CopyRef(G)
    /\ graphs' = [graphs EXCEPT ![CopyRef(G)] = graphs[G]]
    /\ lid' = LabelToId(graphs[G])
    /\ opt_changes' = NoChanges
    /\ i' = 1
    /\ pc' = AfterStart
    /\ UNCHANGED <<name, result, pos, G, directions, groq_directions, calamity_names,
                   changes, applied, nxt, groq_response>>
    /\ UNCHANGED buildVars

\* one iteration of a loop of apply_optimizations, r its outcome, after the loop's exit
OptLoop(p, r, after) ==
    /\ pc = p
    /\ graphs' = [graphs EXCEPT ![M] = r.g]
    /\ opt_changes' = r.changes
    /\ i' = IF i < Len(OptRecs) THEN i + 1 ELSE 1
    /\ pc' = IF i < Len(OptRecs) THEN p ELSE after
    /\ UNCHANGED <<name, result, lid, pos, G, M, directions, groq_directions,
                   calamity_names, changes, applied, nxt, groq_response>>
    /\ UNCHANGED buildVars

OptRemove == OptLoop("opt_remove", OptRemoveOp(graphs[M], lid, opt_changes, OptRecs[i]), AfterRemove)
OptAdd == OptLoop("opt_add", OptAddOp(graphs[M], pos, lid, opt_changes, OptRecs[i]), "opt_repair")

\* the connectivity repair and the return
OptRepair ==
    /\ pc = "opt_repair"
    /\ \E r \in RepairOp(graphs[M], pos, opt_changes) :
          /\ graphs' = [graphs EXCEPT ![M] = r.g]
          /\ opt_changes' = r.changes
    /\ pc' = "opt_done"
    /\ UNCHANGED <<name, result, lid, pos, G, M, directions, groq_directions,
                   calamity_names, changes, applied, nxt, i, groq_response>>
    /\ UNCHANGED buildVars

NextOpt == OptStart \/ OptRemove \/ OptAdd \/ OptRepair

SpecOpt == InitOpt /\ [][NextOpt]_vars

-----------------------------------------------------------------------------
(* _apply_llm_directions called on its own, malformed directives included *)

MaxApplyOps == 2    \* records of a well-formed directive handed to the applier alone

\* absent, lists missing, a label that is a number, a record that is no object
MalformedPool ==
    {NoneV,
     Directive(Missing, Missing, Missing, Missing),
     Directive(List(<<EdgeRec(nh, nS, Str("road"))>>), Missing, Missing, Missing),
     Directive(List(<<EdgeRec(IntV, nS, Missing)>>), Missing, Missing, Missing),
     Directive(List(<<EdgeRec(nh, nS, Str("road")), NotObj>>), Missing, Missing, Missing),
     Directive(Missing, List(<<EdgeRec(nX, IntV, Missing)>>), Missing, Missing),
     Directive(Missing, List(<<NotObj>>), Missing, Missing),
     Directive(Missing, Missing, List(<<NodeRec(nC, Missing, List(<<IntV>>), Missing)>>), Missing),
     Directive(Missing, Missing, List(<<NotObj>>), Missing),
     Directive(Missing, Missing, Missing, List(<<RouteRec(nH, nS, NoneV, Missing)>>)),
     Directive(Missing, Missing, Missing, List(<<RouteRec(nH, nS, IntV, Missing)>>)),
     Directive(Missing, Missing, Missing, List(<<NotObj>>))}

ApplyPool == DirectivesUpTo(MaxApplyOps) \cup MalformedPool

InitApply ==
    /\ pc = "apply"
    /\ \E g \in BaseGraphs : graphs = [r \in Refs |-> IF r = 1 THEN g ELSE NoGraph]
    /\ pos = BasePos
    /\ G = 1 /\ M = 0
    /\ directions \in ApplyPool
    /\ groq_directions = NoneV /\ calamity_names = <<>>
    /\ changes = <<>> /\ applied = 0 /\ lid = <<>> /\ nxt = 0 /\ i = 0
    /\ IdleFuzzy /\ IdleOptimize
    /\ IdleBuild

NextApply == ApplyStart \/ RemoveEdges \/ AddEdges \/ AddNodes \/ Reroute

SpecApply == InitApply /\ [][NextApply]_vars

-----------------------------------------------------------------------------
(* Geometry of the edge builders.  Positions are integer points, distances are *)
(* compared through their squares.  The radius cr is held exactly as the triple *)
(* (root2, num, den), standing for sqrt(root2) + num / den.                     *)

Radius(root2, num, den) == [root2 |-> root2, num |-> num, den |-> den]

\* d < q / b for the distance d whose square is d2: with q = k b + r,
\* (d2 - k k) b b < 2 k r b + r r
Below(d2, q, b) ==
    ((d2 - (q \div b) * (q \div b)) * b - 2 * (q \div b) * (q % b))
        <= ((q % b) * (q % b) - 1) \div b

\* d < (t / 10) * (sqrt(root2) + num / den): 10 den d < t den sqrt(root2) + t num,
\* both sides squared
BelowRoot(d2, t, cr) ==
    LET L == 100 * cr.den * cr.den * d2 - t * t * cr.den * cr.den * cr.root2
                 - t * t * cr.num * cr.num
        R == 2 * t * t * cr.num * cr.den
    IN  \/ L < 0
        \/ L < R * (cr.root2 + 1) /\ L * L < R * R * cr.root2

\* d < city_radius * f, the factor f in hundredths
Closer(d2, f100, cr) ==
    IF cr.root2 = 0 THEN Below(d2, f100 * cr.num, 100 * cr.den)
    ELSE BelowRoot(d2, f100 \div 10, cr)

\* twice the signed area of the triangle a, b, c: positive when counter-clockwise
Orient(a, b, c) == (b[1] - a[1]) * (c[2] - a[2]) - (b[2] - a[2]) * (c[1] - a[1])

\* the in-circle determinant of a, b, c against d
InCircleDet(a, b, c, d) ==
    LET adx == a[1] - d[1]
        ady == a[2] - d[2]
        bdx == b[1] - d[1]
        bdy == b[2] - d[2]
        cdx == c[1] - d[1]
        cdy == c[2] - d[2]
        ad == adx * adx + ady * ady
        bd == bdx * bdx + bdy * bdy
        cd == cdx * cdx + cdy * cdy
    IN  adx * (bdy * cd - cdy * bd) - ady * (bdx * cd - cdx * bd)
            + ad * (bdx * cdy - cdx * bdy)

\* d lies strictly inside the circle through a, b, c
Inside(a, b, c, d) == InCircleDet(a, b, c, d) * Orient(a, b, c) > 0

\* the points on the circle through the triangle t
OnCircle(p, nodes, t) ==
    {d \in nodes : d \in {t[1], t[2], t[3]}
                       \/ InCircleDet(p[t[1]], p[t[2]], p[t[3]], p[d]) = 0}

\* u and v are neighbours on the polygon of the points C of one circle
Adjacent(p, C, u, v) ==
    \/ \A d \in C \ {u, v} : Orient(p[u], p[v], p[d]) > 0
    \/ \A d \in C \ {u, v} : Orient(p[u], p[v], p[d]) < 0

\* the point of C the library's fan of triangles starts from
Apex(C, mode) == IF mode = "low" THEN MinOf(C) ELSE MaxOf(C)

\* the triangle t belongs to the fan over the points C of its circle
InFan(p, C, t, mode) ==
    /\ Apex(C, mode) \in {t[1], t[2], t[3]}
    /\ \E u, v \in {t[1], t[2], t[3]} \ {Apex(C, mode)} : u # v /\ Adjacent(p, C, u, v)

\* Delaunay(pa).simplices: the triangles whose circle holds no other point; where
\* more than three points lie on one circle, the fan the library's mode gives
Simplices(p, nodes, mode) ==
    {t \in nodes \X nodes \X nodes :
        /\ t[1] < t[2] /\ t[2] < t[3]
        /\ Orient(p[t[1]], p[t[2]], p[t[3]]) # 0
        /\ \A d \in nodes \ {t[1], t[2], t[3]} : ~Inside(p[t[1]], p[t[2]], p[t[3]], p[d])
        /\ InFan(p, OnCircle(p, nodes, t), t, mode)}

\* the three sides of every simplex
SimplexEdges(p, nodes, mode) ==
    UNION {{EdgeKey(t[1], t[2]), EdgeKey(t[2], t[3]), EdgeKey(t[3], t[1])} :
              t \in Simplices(p, nodes, mode)}

\* KDTree order of the points around u: by distance, equal distances by index as
\* the library's mode has it
Nearer(p, u, a, b, mode) ==
    \/ Dist2(p, u, a) < Dist2(p, u, b)
    \/ /\ Dist2(p, u, a) = Dist2(p, u, b)
       /\ IF mode = "low" THEN a < b ELSE a > b

\* tree.query(pa[i], k=n): the n points nearest to u, the point u among them
Query(p, nodes, u, n, mode) ==
    {a \in nodes : Cardinality({b \in nodes : Nearer(p, u, b, a, mode)}) < n}

\* a faulty variant: the neighbours are indices[2:], the nearest one is dropped too
KnnEdgesShort(p, nodes, k, mode) ==
    UNION {{EdgeKey(u, v) : v \in Query(p, nodes, u, k + 1, mode) \ Query(p, nodes, u, 2, mode)} :
              u \in nodes}

\* for each node the pairs it forms with indices[1:] of the k + 1 nearest
KnnEdges(p, nodes, k, mode) ==
    UNION {{EdgeKey(u, v) : v \in Query(p, nodes, u, k + 1, mode) \ Query(p, nodes, u, 1, mode)} :
              u \in nodes}

\* the pairs of E that g lacks, added as edges of type et weighing their length
WithEdges(g, p, E, et) ==
    [g EXCEPT !.edges = [e \in (DOMAIN g.edges) \cup E |->
        IF e \in DOMAIN g.edges THEN g.edges[e]
        ELSE [edge_type |-> et, weight |-> Dist2(p, MinOf(e), MaxOf(e))]]]

\* the sides of the triangulation that are shorter than city_radius * 0.6
ShortSides(p, nodes, cr, mode) ==
    IF Cardinality(nodes) >= 4
    THEN {e \in SimplexEdges(p, nodes, mode) : Closer(Dist2(p, MinOf(e), MaxOf(e)), 60, cr)}
    ELSE {}

\* _add_road_edges(G, pos, city_radius)
AddRoadEdgesOp(g, p, cr, mode) ==
    WithEdges(g, p,
              ShortSides(p, g.nodes, cr, mode)
                  \cup KnnEdges(p, g.nodes, MinOf({4, Cardinality(g.nodes) - 1}), mode),
              "road")

\* infra_nodes.get(it, []): the nodes of one type
OfType(g, it) == {n \in g.nodes : g.attr[n].infra_type = it}

Pairs(A, B) == {EdgeKey(a, b) : a \in A, b \in B}

\* G.add_edge(u, v, edge_type=et, weight=norm) over the pairs of E, overwriting
Overwrite(g, p, E, et) ==
    [g EXCEPT !.edges = [e \in (DOMAIN g.edges) \cup E |->
        IF e \in E THEN [edge_type |-> et, weight |-> Dist2(p, MinOf(e), MaxOf(e))]
        ELSE g.edges[e]]]

\* a faulty variant: one generator for the module, seeded by its first user
ModuleState(s) == IF rng = NoRng THEN [seed |-> s, drawn |-> 0] ELSE rng

\* np.random.RandomState(s): a generator at the start of the numbers of seed s
RandomState(s) == [seed |-> s, drawn |-> 0]

\* the k-th number a generator yields, in tenths; the numbers of a seed repeat
\* after Len(stream) draws
NumberAt(stream, k) == stream[((k - 1) % Len(stream)) + 1]

\* the (substation, node) pairs that reach rng.random(): the node's type and
\* d < city_radius * 0.4 passed
Candidates(g, p, cr) ==
    {c \in OfType(g, "Substation") \X g.nodes :
        /\ g.attr[c[2]].infra_type \notin {"intersection", "Substation", "Power Plant"}
        /\ Closer(Dist2(p, c[1], c[2]), 40, cr)}

\* the place of c in the nested loops' order, which is the draw it consumes
DrawIndex(C, c) ==
    Cardinality({b \in C : b[1] < c[1] \/ (b[1] = c[1] /\ b[2] <= c[2])})

\* the candidates whose draw came below 0.3
Powered(C, stream) ==
    {EdgeKey(c[1], c[2]) : c \in {x \in C : NumberAt(stream, DrawIndex(C, x)) < 3}}

\* emergency nodes closer than city_radius * 0.5
EmergencyPairs(g, p, cr) ==
    LET em == OfType(g, "Hospital") \cup OfType(g, "Fire Station")
                  \cup OfType(g, "Police Station") \cup OfType(g, "Ambulance Depot")
    IN  {e \in Pairs(em, em) : Cardinality(e) = 2 /\ Closer(Dist2(p, MinOf(e), MaxOf(e)), 50, cr)}

\* _add_utility_edges(G, pos, infra_nodes, city_radius), stream the numbers of
\* its generator RandomState(42)
AddUtilityEdgesOp(g, p, cr, stream) ==
    Overwrite(
        Overwrite(
            Overwrite(
                Overwrite(g, p,
                          Pairs(OfType(g, "Power Plant"),
                                OfType(g, "Substation") \cup OfType(g, "Hospital")),
                          "power"),
                p, Powered(Candidates(g, p, cr), stream), "power"),
            p,
            Pairs(OfType(g, "Water Treatment"),
                  OfType(g, "Water Supply") \cup OfType(g, "Hospital")),
            "water"),
        p, EmergencyPairs(g, p, cr), "emergency")

-----------------------------------------------------------------------------
(* The two steps of edge construction, shared by both graph builders *)

Norm2(pt) == pt[1] * pt[1] + pt[2] * pt[2]

\* the pipeline's variables no graph builder touches
pipeVars == <<name, result, lid, M, directions, groq_directions, calamity_names,
              changes, applied, nxt, groq_response, opt_changes>>

IdlePipe ==
    /\ lid = <<>> /\ M = 0 /\ directions = NoneV /\ groq_directions = NoneV
    /\ calamity_names = <<>> /\ changes = <<>> /\ applied = 0 /\ nxt = 0
    /\ IdleFuzzy /\ IdleOptimize

\* the tenths a generator's numbers are held in: below 0.3, below 0.5, above
Tenths == {1, 4, 8}

StreamLen == 2    \* draws after which the numbers of a seed repeat

\* where only "below 0.3" is asked: below, above
Coins == {1, 8}

Streams(values) == [1..StreamLen -> values]

\* _add_road_edges(G, pos, cr); on fewer than two nodes indices[1:] raises
AddRoadEdges ==
    /\ pc = "road_edges"
    /\ IF Cardinality(graphs[G].nodes) < 2
       THEN pc' = "raised" /\ UNCHANGED graphs
       ELSE /\ graphs' = [graphs EXCEPT ![G] = AddRoadEdgesOp(@, pos, city_radius, scipy)]
            /\ pc' = "utility_edges"
    /\ UNCHANGED <<pos, G, i, elements, centre, city_name, seed, city_radius, mt19937,
                   rng, scipy, hc, plan, runs, adj>>
    /\ UNCHANGED pipeVars

\* _add_utility_edges(G, pos, infra_nodes, cr)
AddUtilityEdges ==
    /\ pc = "utility_edges"
    /\ graphs' = [graphs EXCEPT ![G] = AddUtilityEdgesOp(@, pos, city_radius, mt19937[42])]
    /\ pc' = "built"
    /\ UNCHANGED <<pos, G, i, elements, centre, city_name, seed, city_radius, mt19937,
                   rng, scipy, hc, plan, runs, adj>>
    /\ UNCHANGED pipeVars

-----------------------------------------------------------------------------
(* _build_graph_osm: labels are held as their characters *)

S_OSM == <<"O", "S", "M">>
S_Mercy == <<"M", "e", "r", "c", "y">>

Element(nm, it, lat, lon) == [name |-> nm, infra_type |-> it, lat |-> lat, lon |-> lon]

\* tags.get("name", f"{itype} (OSM {oid})"): the name of an element without a name tag
OsmDefaultName(it, oid) ==
    Chars(it) \o <<" ", "(">> \o S_OSM \o <<" ">> \o ToStr(oid) \o <<")">>

\* _latlon_to_xy, for a centre on the equator and degrees held in units of 1 / 111.32
LatLonToXY(lat, lon, clat, clon) == <<lon - clon, lat - clat>>

\* np.hypot(x - px, y - py) < 0.05
Near(a, b) == 400 * ((a[1] - b[1]) * (a[1] - b[1]) + (a[2] - b[2]) * (a[2] - b[2])) < 1

\* the element's name, or f"{itype} #{idx}" when it has none or an "OSM" one
OsmLabelPlain(el, idx, existing) ==
    IF el.name # <<>> /\ ~IsSubstring(S_OSM, el.name) THEN el.name
    ELSE Chars(el.infra_type) \o <<" ", "#">> \o ToStr(idx)

\* the label of an element: f"{label} ({idx})" when a placed node has the label already
OsmLabel(el, idx, existing) ==
    IF OsmLabelPlain(el, idx, existing) \in existing
    THEN OsmLabelPlain(el, idx, existing) \o <<" ", "(">> \o ToStr(idx) \o <<")">>
    ELSE OsmLabelPlain(el, idx, existing)

Labels(g) == {g.attr[n].label : n \in g.nodes}

\* the body of the element loop: g with the element as node n, or g when it is
\* within 0.05 of a placed one
PlaceElement(g, p, n, el, xy) ==
    IF \E m \in g.nodes : Near(p[m], xy) THEN [g |-> g, pos |-> p]
    ELSE [g |-> AddNode(g, n,
                        OsmLabel(el, Cardinality(OfType(g, el.infra_type)) + 1, Labels(g)),
                        el.infra_type, CategoryOf(el.infra_type)),
          pos |-> p @@ (n :> xy)]

MaxElements == 3    \* elements handed to _build_graph_osm

OsmTypes == {"Hospital", "Fire Station", "Grocery Store"}

\* where the elements of a list lie, as (lat, lon): spread out, and with two
\* elements on one spot
OsmLayouts == {<<<<0, 0>>, <<0, 2>>, <<1, 0>>, <<3, 3>>>>,
               <<<<0, 0>>, <<2, 1>>, <<0, 0>>, <<1, 3>>>>}

Centres == {<<0, 0>>, <<1, 1>>}

ElementListsUpTo(n) ==
    UNION {{[k \in 1..m |->
                Element(IF kind[k].named THEN S_Mercy
                        ELSE OsmDefaultName(kind[k].infra_type, k),
                        kind[k].infra_type, lay[k][1], lay[k][2])] :
               kind \in [1..m -> [named : BOOLEAN, infra_type : OsmTypes]],
               lay \in OsmLayouts} :
           m \in 1..n}

IdleAdj == runs = <<>> /\ adj = <<>>

InitOsm ==
    /\ pc = "osm"
    /\ elements \in ElementListsUpTo(MaxElements)
    /\ centre \in Centres
    /\ graphs = [r \in Refs |-> NoGraph] /\ G = 1 /\ pos = <<>> /\ i = 1
    /\ city_name = "" /\ seed = None /\ city_radius = None /\ rng = NoRng
    /\ hc = <<>> /\ plan = <<>>
    /\ scipy \in {"low", "high"}
    /\ mt19937 \in {(42 :> s) : s \in Streams(Coins)}
    /\ IdleAdj /\ IdlePipe

\* one pass of the loop over enumerate(elements); the node id is the list index
OsmElement ==
    /\ pc = "osm"
    /\ LET r == PlaceElement(graphs[G], pos, i - 1, elements[i],
                             LatLonToXY(elements[i].lat, elements[i].lon,
                                        centre[1], centre[2]))
       IN  graphs' = [graphs EXCEPT ![G] = r.g] /\ pos' = r.pos
    /\ i' = i + 1
    /\ pc' = IF i < Len(elements) THEN "osm" ELSE "osm_placed"
    /\ UNCHANGED <<G, elements, centre, city_name, seed, city_radius, mt19937, rng,
                   scipy, hc, plan, runs, adj>>
    /\ UNCHANGED pipeVars

\* raise ValueError on fewer than two nodes; cr = max norm + 0.5
OsmRadius ==
    /\ pc = "osm_placed"
    /\ IF Cardinality(graphs[G].nodes) < 2
       THEN pc' = "raised" /\ UNCHANGED city_radius
       ELSE /\ city_radius' = Radius(MaxOf({Norm2(pos[n]) : n \in graphs[G].nodes}), 1, 2)
            /\ pc' = "road_edges"
    /\ UNCHANGED <<graphs, pos, G, i, elements, centre, city_name, seed, mt19937, rng,
                   scipy, hc, plan, runs, adj>>
    /\ UNCHANGED pipeVars

NextOsm == OsmElement \/ OsmRadius \/ AddRoadEdges \/ AddUtilityEdges

SpecOsm == InitOsm /\ [][NextOsm]_vars

-----------------------------------------------------------------------------
(* _generate_procedural, on the kilometre lattice: every coordinate the source *)
(* computes is rounded down to a whole kilometre, cos and sin are taken on the *)
(* eight compass directions to one decimal, and every call on the generator    *)
(* takes the next number of its seed.  Of the thirteen types of the source the *)
(* model places those of GenTypes, at most MaxPerType nodes of each.           *)

Tries == 50              \* for _ in range(50)

MaxPerType == 2          \* nodes placed of one type
MaxIntersections == 1    \* intersections placed

GenTypes == <<"Hospital", "Power Plant", "Substation">>

\* _city_seed(name), and the first two bytes of sha256(name)
CityHash(nm) ==
    CASE nm = "Miami" -> [seed |-> 257812232, b0 |-> 43, b1 |-> 252]
      [] nm = "Tokyo" -> [seed |-> 1648441943, b0 |-> 236, b1 |-> 45]

\* sd = seed if seed else _city_seed(city_name)
SeedOf(nm, sd) == IF sd = None \/ sd = 0 THEN CityHash(nm).seed ELSE sd

\* cr = 4.0 + int(h[:2], 16) / 256 * 3.0
CityRadius(nm) == Radius(0, 1024 + 3 * CityHash(nm).b0, 256)

\* int(c * dens) for c in tenths, dens = 0.6 + int(h[2:4], 16) / 256 * 0.6
IntDens(c10, nm) == (3 * c10 * (256 + CityHash(nm).b1)) \div 12800

\* rng.randint(lo, hi) on the number t
RandInt(lo, hi, t) == lo + ((hi - lo) * t) \div 10

\* cr * p / q, rounded down
Times(cr, p, q) == (cr.num * p) \div (cr.den * q)

Cos10 == <<10, 7, 0, -7, -10, -7, 0, 7>>
Sin10 == <<0, 7, 10, 7, 0, -7, -10, -7>>

\* (r cos a, r sin a) for r = cr * r1000 / 1000 and a the compass direction o
Polar(cr, r1000, o) ==
    <<Times(cr, r1000 * Cos10[o + 1], 10000), Times(cr, r1000 * Sin10[o + 1], 10000)>>

\* the hood centres: hc.insert(0, ...) puts the one drawn last in front; hood k of
\* n lies at the angle 2 pi k / n + uniform(-.4, .4), r = cr * (.25 + uniform(0, .55))
HoodCentres(cr, s, d, n) ==
    <<<<(NumberAt(s, d + 2 * n + 1) - 5) \div 10, (NumberAt(s, d + 2 * n + 2) - 5) \div 10>>>>
    \o [k \in 1..n |->
           Polar(cr, 250 + 55 * NumberAt(s, d + 2 * k),
                 ((80 * (k - 1) + n * NumberAt(s, d + 2 * k - 1)) \div (10 * n)) % 8)]

\* nc[it]; c is the number of draws before the dictionary display
Count(it, nm, s, c) ==
    CASE it = "Hospital" -> MaxOf({2, IntDens(30, nm) + RandInt(0, 3, NumberAt(s, c + 1))})
      [] it = "Power Plant" -> MaxOf({1, IntDens(15, nm)})
      [] it = "Substation" -> MaxOf({2, IntDens(40, nm) + RandInt(0, 2, NumberAt(s, c + 7))})

\* the passes of "for i in range(cnt)" for one type
Items(it, cnt, cap) == [k \in 1..MinOf({cnt, cap}) |-> [infra_type |-> it, i |-> k - 1]]

\* where _pl is asked to place node i of type it, and with which spread and minimum
\* distance (hundredths of cr); used counts the draws taken before _pl
Site(it, k, hcs, cr, s, d) ==
    CASE it = "Hospital" ->
           [c |-> IF k = 0 THEN hcs[1] ELSE hcs[MinOf({k, Len(hcs) - 1}) + 1],
            sp |-> 25, md |-> 40, used |-> 0]
      [] it = "Power Plant" ->
           [c |-> Polar(cr, 700 + 30 * NumberAt(s, d + 2), (8 * NumberAt(s, d + 1)) \div 10),
            sp |-> 15, md |-> 50, used |-> 2]
      [] it = "Substation" ->
           [c |-> <<(5 * (hcs[(k % Len(hcs)) + 1][1] + hcs[((k + 1) % Len(hcs)) + 1][1])
                        + NumberAt(s, d + 1) - 5) \div 10,
                    (5 * (hcs[(k % Len(hcs)) + 1][2] + hcs[((k + 1) % Len(hcs)) + 1][2])
                        + NumberAt(s, d + 2) - 5) \div 10>>,
            sp |-> 20, md |-> 25, used |-> 2]

\* c + uniform(-sp, sp) in both coordinates, sp = cr * sp100 / 100
Around(c, cr, sp100, s, d) ==
    <<c[1] + Times(cr, sp100 * (2 * NumberAt(s, d + 1) - 10), 1000),
      c[2] + Times(cr, sp100 * (2 * NumberAt(s, d + 2) - 10), 1000)>>

\* all(np.hypot(x - px, y - py) >= md for px, py in ap)
Clear(xy, ap, md100, cr) ==
    \A q \in ap : ~Closer((xy[1] - q[1]) * (xy[1] - q[1]) + (xy[2] - q[2]) * (xy[2] - q[2]),
                          md100, cr)

\* _pl: the first of the tries that is clear of the placed nodes, else one more draw
\* with one and a half times the spread
RECURSIVE Pl(_, _, _, _, _, _, _, _)
Pl(c, sp100, md100, ap, cr, s, d, tries) ==
    IF tries = 0
    THEN [xy |-> <<c[1] + Times(cr, 15 * sp100 * (2 * NumberAt(s, d + 1) - 10), 10000),
                   c[2] + Times(cr, 15 * sp100 * (2 * NumberAt(s, d + 2) - 10), 10000)>>,
          drawn |-> d + 2]
    ELSE IF Clear(Around(c, cr, sp100, s, d), ap, md100, cr)
    THEN [xy |-> Around(c, cr, sp100, s, d), drawn |-> d + 2]
    ELSE Pl(c, sp100, md100, ap, cr, s, d + 2, tries - 1)

PlaceAt(site, ap, cr, s, d) ==
    Pl(site.c, site.sp, site.md, ap, cr, s, d + site.used, Tries)

\* the position of intersection k between two hoods
Between(h1, h2, tv100, tx, ty) ==
    <<(h1[1] * (100 - tv100) + h2[1] * tv100 + 6 * tx - 30) \div 100,
      (h1[2] * (100 - tv100) + h2[2] * tv100 + 6 * ty - 30) \div 100>>

\* the body of the intersection loop for i = k
Intersection(k, hcs, cr, s, d) ==
    IF k < Len(hcs) /\ NumberAt(s, d + 1) < 6
    THEN [xy |-> Between(hcs[(k % Len(hcs)) + 1],
                         hcs[((k + RandInt(1, MaxOf({2, Len(hcs)}), NumberAt(s, d + 2)))
                                 % Len(hcs)) + 1],
                         20 + 6 * NumberAt(s, d + 3), NumberAt(s, d + 4), NumberAt(s, d + 5)),
          drawn |-> d + 5]
    ELSE LET e == IF k < Len(hcs) THEN d + 1 ELSE d
         IN  [xy |-> <<hcs[RandInt(0, Len(hcs), NumberAt(s, e + 1)) + 1][1]
                           + Times(cr, 6 * NumberAt(s, e + 2) - 30, 100),
                       hcs[RandInt(0, Len(hcs), NumberAt(s, e + 1)) + 1][2]
                           + Times(cr, 6 * NumberAt(s, e + 3) - 30, 100)>>,
              drawn |-> e + 3]

\* where the node of plan item it goes, and the generator's count afterwards
Placed(it, hcs, ap, cr, s, d) ==
    IF it.infra_type = "intersection" THEN Intersection(it.i, hcs, cr, s, d)
    ELSE PlaceAt(Site(it.infra_type, it.i, hcs, cr, s, d), ap, cr, s, d)

\* nm = f"{it} #{i+1}", "Intersection" for an intersection
GenLabel(it) ==
    IF it.infra_type = "intersection" THEN S_Intersection
    ELSE Chars(it.infra_type) \o <<" ", "#">> \o ToStr(it.i + 1)

\* INFRASTRUCTURE[it]["category"], "road" for an intersection
GenCategory(it) ==
    IF it.infra_type = "intersection" THEN "road" ELSE CategoryOf(it.infra_type)

SeedPool == {0, 7}
CityPool == {"Miami", "Tokyo"}

InitGen ==
    /\ pc = "gen"
    /\ city_name \in CityPool
    /\ seed \in SeedPool
    /\ \E a \in Streams(Tenths), b \in Streams(Coins) :
          mt19937 = (SeedOf(city_name, seed) :> a) @@ (42 :> b)
    /\ scipy \in {"low", "high"}
    /\ graphs = [r \in Refs |-> NoGraph] /\ G = 1 /\ pos = <<>> /\ i = 1
    /\ city_radius = None /\ rng = NoRng /\ hc = <<>> /\ plan = <<>>
    /\ elements = <<>> /\ centre = <<0, 0>>
    /\ IdleAdj /\ IdlePipe

\* rng = RandomState(sd), cr, the hoods and the counts: n is n_h, c the draws before nc
GenBegin(gen, cr, s, n) ==
    /\ city_radius' = cr
    /\ hc' = HoodCentres(cr, s, gen.drawn + 1, n)
    /\ plan' = Items("Hospital", Count("Hospital", city_name, s, gen.drawn + 2 * n + 3),
                     MaxPerType)
               \o Items("Power Plant", Count("Power Plant", city_name, s, gen.drawn + 2 * n + 3),
                        MaxPerType)
               \o Items("Substation", Count("Substation", city_name, s, gen.drawn + 2 * n + 3),
                        MaxPerType)
    /\ rng' = [gen EXCEPT !.drawn = gen.drawn + 2 * n + 11]

GenStartWith(gen) ==
    GenBegin(gen, CityRadius(city_name), mt19937[gen.seed],
             MaxOf({4, IntDens(50, city_name)
                          + RandInt(0, 3, NumberAt(mt19937[gen.seed], gen.drawn + 1))}))

\* _generate_procedural up to the placement loops
GenStart ==
    /\ pc = "gen"
    /\ GenStartWith(RandomState(SeedOf(city_name, seed)))
    /\ graphs' = [graphs EXCEPT ![G] = NoGraph]
    /\ pos' = <<>>
    /\ i' = 1
    /\ pc' = "gen_place"
    /\ UNCHANGED <<G, elements, centre, city_name, seed, mt19937, scipy, runs, adj>>
    /\ UNCHANGED pipeVars

\* one pass of a placement loop, r where the node goes; the node id is nid
GenPlaceAs(it, r) ==
    /\ graphs' = [graphs EXCEPT ![G] = AddNode(@, i - 1, GenLabel(it), it.infra_type,
                                                GenCategory(it))]
    /\ pos' = pos @@ ((i - 1) :> r.xy)
    /\ rng' = [rng EXCEPT !.drawn = r.drawn]
    /\ i' = i + 1
    /\ pc' = IF i < Len(plan) THEN "gen_place"
             ELSE IF it.infra_type = "intersection" THEN "road_edges" ELSE "gen_count"

GenPlace ==
    /\ pc = "gen_place"
    /\ GenPlaceAs(plan[i], Placed(plan[i], hc, {pos[n] : n \in DOMAIN pos}, city_radius,
                                  mt19937[rng.seed], rng.drawn))
    /\ UNCHANGED <<G, elements, centre, city_name, seed, city_radius, mt19937, scipy,
                   hc, plan, runs, adj>>
    /\ UNCHANGED pipeVars

\* range(int(25 * dens + rng.randint(0, 12))): n passes of the intersection loop
GenCountAs(n) ==
    /\ plan' = plan \o Items("intersection", n, MaxIntersections)
    /\ pc' = IF MinOf({n, MaxIntersections}) > 0 THEN "gen_place" ELSE "road_edges"

GenCount ==
    /\ pc = "gen_count"
    /\ GenCountAs(IntDens(250, city_name)
                      + RandInt(0, 12, NumberAt(mt19937[rng.seed], rng.drawn + 1)))
    /\ rng' = [rng EXCEPT !.drawn = rng.drawn + 1]
    /\ UNCHANGED <<graphs, pos, G, i, elements, centre, city_name, seed, city_radius,
                   mt19937, scipy, hc, runs, adj>>
    /\ UNCHANGED pipeVars

\* return G, pos, infra_nodes, cr; the caller calls again with the same arguments
GenReturn ==
    /\ pc = "built"
    /\ runs' = Append(runs, [G |-> graphs[G], pos |-> pos, cr |-> city_radius])
    /\ pc' = IF Len(runs) = 0 THEN "gen" ELSE "done"
    /\ UNCHANGED <<graphs, pos, G, i, elements, centre, city_name, seed, city_radius,
                   mt19937, rng, scipy, hc, plan, adj>>
    /\ UNCHANGED pipeVars

NextGen == GenStart \/ GenPlace \/ GenCount \/ AddRoadEdges \/ AddUtilityEdges \/ GenReturn

SpecGen == InitGen /\ [][NextGen]_vars

-----------------------------------------------------------------------------
(* Topology construction on a given placement: _add_road_edges, then
   _add_utility_edges, on nodes already positioned *)

GridMax == 2    \* the small placements lie on (0..GridMax) x (0..GridMax)

Grid == (0..GridMax) \X (0..GridMax)

Positioned(xy, it) == [xy |-> xy, infra_type |-> it]

\* two nodes at distinct points
Couples ==
    {<<Positioned(t[1], "Hospital"), Positioned(t[2], "Fire Station")>> :
        t \in {t \in Grid \X Grid : t[1] # t[2]}}

\* 1 Hospital, 1 Fire Station, 1 Power Plant at every three distinct points
Triples ==
    {<<Positioned(t[1], "Hospital"), Positioned(t[2], "Fire Station"),
       Positioned(t[3], "Power Plant")>> :
        t \in {t \in Grid \X Grid \X Grid : t[1] # t[2] /\ t[1] # t[3] /\ t[2] # t[3]}}

\* five nodes of one type, side by side
Cluster(x, it) ==
    <<Positioned(<<x, 0>>, it), Positioned(<<x + 1, 0>>, it), Positioned(<<x, 1>>, it),
      Positioned(<<x + 1, 1>>, it), Positioned(<<x, -1>>, it)>>

\* two groups of five on either side of the centre; and the same with a power
\* plant's lines across
Clusters ==
    {Cluster(-4, "Grocery Store") \o Cluster(3, "Grocery Store"),
     Cluster(-4, "Substation") \o Cluster(3, "Grocery Store"),
     Cluster(-4, "Substation") \o Cluster(3, "Hospital")
        \o <<Positioned(<<0, 0>>, "Power Plant")>>}

Placements == Couples \cup Triples \cup Clusters

\* the graph and the positions of a placement: node ids in list order, labels
\* f"{it} #{k}" numbered within the type
GraphOf(lay) ==
    [nodes |-> 0..(Len(lay) - 1),
     attr |-> [n \in 0..(Len(lay) - 1) |->
        [label |-> Chars(lay[n + 1].infra_type) \o <<" ", "#">>
                   \o ToStr(Cardinality({m \in 1..(n + 1) :
                                lay[m].infra_type = lay[n + 1].infra_type})),
         infra_type |-> lay[n + 1].infra_type,
         category |-> CategoryOf(lay[n + 1].infra_type)]],
     edges |-> <<>>]

PosOf(lay) == [n \in 0..(Len(lay) - 1) |-> lay[n + 1].xy]

InitTopo ==
    /\ pc = "road_edges"
    /\ \E lay \in Placements :
          /\ graphs = [r \in Refs |-> IF r = 1 THEN GraphOf(lay) ELSE NoGraph]
          /\ pos = PosOf(lay)
          /\ city_radius = Radius(MaxOf({Norm2(lay[k].xy) : k \in 1..Len(lay)}), 1, 2)
    /\ G = 1 /\ i = 1
    /\ scipy \in {"low", "high"}
    /\ mt19937 \in {(42 :> s) : s \in Streams(Coins)}
    /\ elements = <<>> /\ centre = <<0, 0>> /\ city_name = "" /\ seed = None
    /\ rng = NoRng /\ hc = <<>> /\ plan = <<>>
    /\ IdleAdj /\ IdlePipe

NextTopo == AddRoadEdges \/ AddUtilityEdges

SpecTopo == InitTopo /\ [][NextTopo]_vars

-----------------------------------------------------------------------------
(* _apply_programmatic_pruning called twice on one input, its numbers drawn from
   RandomState(99); M.edges(data=True) is taken in the order of EdgeList *)

\* the outcomes of the rng.random() comparisons of one edge, from the k-th number on:
\* with "flood" the one against 0.5 and, when it fails, rule 7's against 0.3
EdgeDraws(stream, k, flood) ==
    IF flood
    THEN IF NumberAt(stream, k) < 5 THEN <<TRUE>>
         ELSE <<FALSE, NumberAt(stream, k + 1) < 3>>
    ELSE <<NumberAt(stream, k) < 3>>

\* the outcomes for the edges of `order` in turn, after k numbers were drawn
RECURSIVE DrawAll(_, _, _, _)
DrawAll(order, stream, k, flood) ==
    IF order = <<>> THEN [draws |-> <<>>, drawn |-> k]
    ELSE LET rest == DrawAll(Tail(order), stream,
                             k + Len(EdgeDraws(stream, k + 1, flood)), flood)
         IN  [draws |-> (Head(order) :> EdgeDraws(stream, k + 1, flood)) @@ rest.draws,
              drawn |-> rest.drawn]

PruneWith(gen, d, r) ==
    /\ graphs' = [graphs EXCEPT ![CopyRef(G) + Len(runs)] = r.g]
    /\ M' = CopyRef(G) + Len(runs)
    /\ changes' = r.changes
    /\ runs' = Append(runs, [M |-> r.g, changes |-> r.changes])
    /\ rng' = [gen EXCEPT !.drawn = d.drawn]

PruneDrawn(gen, d) == PruneWith(gen, d, PruneOp(graphs[G], calamity_names, d.draws))

PruneFrom(gen) ==
    PruneDrawn(gen, DrawAll(EdgeList(DrawEdges(graphs[G])), mt19937[gen.seed], gen.drawn,
                            Threatens(S_flood, calamity_names)))

\* M, changes = _apply_programmatic_pruning(G, calamity_names)
PruneCall ==
    /\ pc = "prune"
    /\ PruneFrom(RandomState(99))
    /\ pc' = IF Len(runs) = 0 THEN "prune" ELSE "done"
    /\ UNCHANGED <<name, result, lid, pos, G, directions, groq_directions, calamity_names,
                   applied, nxt, i, groq_response, opt_changes>>
    /\ UNCHANGED <<elements, centre, city_name, seed, city_radius, mt19937, scipy, hc,
                   plan, adj>>

\* every road between critical nodes, all short: each one reaches a comparison
GraphRoads == BaseGraph({<<0, 1, "road">>, <<0, 2, "road">>, <<1, 2, "road">>,
                         <<3, 4, "road">>, <<0, 4, "power">>})

InitPrune ==
    /\ pc = "prune"
    /\ \E g \in BaseGraphs \cup {GraphRoads} :
          graphs = [r \in Refs |-> IF r = 1 THEN g ELSE NoGraph]
    /\ pos = BasePos
    /\ G = 1 /\ M = 0
    /\ calamity_names \in ThreatLists \cup {<<"Earthquake", "Flood">>}
    /\ mt19937 \in {(99 :> s) : s \in Streams(Tenths)}
    /\ directions = NoneV /\ groq_directions = NoneV
    /\ changes = <<>> /\ applied = 0 /\ lid = <<>> /\ nxt = 0 /\ i = 0
    /\ IdleFuzzy /\ IdleOptimize
    /\ elements = <<>> /\ centre = <<0, 0>> /\ city_name = "" /\ seed = None
    /\ city_radius = None /\ rng = NoRng /\ scipy = "idle" /\ hc = <<>> /\ plan = <<>>
    /\ IdleAdj

NextPrune == PruneCall

SpecPrune == InitPrune /\ [][NextPrune]_vars

-----------------------------------------------------------------------------
(* The adjacency views: _build_adj and server.py's build_adjacency_list *)

ISqrt(d2) == MaxOf({r \in 0..d2 : r * r <= d2})

\* the digits of a square root by long division: n more decimals of root, whose
\* square leaves rem
RECURSIVE SqrtDigits(_, _, _)
SqrtDigits(root, rem, n) ==
    IF n = 0 THEN root
    ELSE LET x == MaxOf({d \in 0..9 : (20 * root + d) * d <= rem * 100})
         IN  SqrtDigits(root * 10 + x, rem * 100 - (20 * root + x) * x, n - 1)

\* round(weight, dg) of the weight whose square is d2, in units of 10^-dg
Rounded(d2, dg) == (SqrtDigits(ISqrt(d2), d2 - ISqrt(d2) * ISqrt(d2), dg + 1) + 5) \div 10

\* the orders G.neighbors(nid) may come in: the order the edges were added in
Orders(S) ==
    {o \in [1..Cardinality(S) -> S] : \A a, b \in 1..Cardinality(S) : a # b => o[a] # o[b]}

Entry(g, nid, nbr, dg) ==
    [neighbor |-> g.attr[nbr].label,
     edge_type |-> g.edges[EdgeKey(nid, nbr)].edge_type,
     distance |-> Rounded(g.edges[EdgeKey(nid, nbr)].weight, dg)]

\* nbs after the loop over G.neighbors(nid)
Listed(g, nid, order, dg) ==
    LET Kept(nbr) == g.attr[nbr].infra_type # "intersection"
        kept == SelectSeq(order, Kept)
    IN  [k \in 1..Len(kept) |-> Entry(g, nid, kept[k], dg)]

\* a faulty variant: the list is left in the order of G.neighbors
Unsorted(nbs) == nbs

\* nbs.sort(key=lambda x: x["distance"]): stable
RECURSIVE SortByDistance(_)
SortByDistance(nbs) ==
    IF nbs = <<>> THEN <<>>
    ELSE LET sorted == SortByDistance(SubSeq(nbs, 1, Len(nbs) - 1))
             x == nbs[Len(nbs)]
             k == Cardinality({j \in 1..Len(sorted) : sorted[j].distance <= x.distance})
         IN  SubSeq(sorted, 1, k) \o <<x>> \o SubSeq(sorted, k + 1, Len(sorted))

\* one pass of the loop over G.nodes(), i nodes done
AdjNode(g, nid, dg) ==
    /\ IF g.attr[nid].infra_type = "intersection" THEN UNCHANGED adj
       ELSE \E order \in Orders(Neighbors(g, nid)) :
               adj' = (g.attr[nid].label :> SortByDistance(Listed(g, nid, order, dg))) @@ adj
    /\ i' = i + 1
    /\ UNCHANGED <<pc, graphs, pos, G, elements, centre, city_name, seed, city_radius,
                   mt19937, rng, scipy, hc, plan, runs>>
    /\ UNCHANGED pipeVars

\* _build_adj: round(weight, 4)
BuildAdj ==
    /\ pc = "_build_adj"
    /\ i < Cardinality(graphs[G].nodes)
    /\ AdjNode(graphs[G], InOrder(graphs[G].nodes)[i + 1], 4)

\* build_adjacency_list: round(weight, 2)
BuildAdjacencyList ==
    /\ pc = "build_adjacency_list"
    /\ i < Cardinality(graphs[G].nodes)
    /\ AdjNode(graphs[G], InOrder(graphs[G].nodes)[i + 1], 2)

\* the edges the graphs handed over are drawn from
AdjEdgePool == {<<0, 1, "road">>, <<0, 2, "emergency">>, <<0, 3, "road">>,
                <<0, 4, "power">>, <<0, 5, "road">>, <<1, 5, "road">>, <<1, 2, "road">>}

\* g with node n under another label: what add_nodes leaves behind
Relabel(g, n, label) == [g EXCEPT !.attr[n].label = label]

AdjGraphs ==
    {BaseGraph(es) : es \in SUBSET AdjEdgePool}
        \cup {Relabel(BaseGraph(es), 3, "Hospital #1") : es \in SUBSET AdjEdgePool}

InitAdj ==
    /\ pc \in {"_build_adj", "build_adjacency_list"}
    /\ \E g \in AdjGraphs : graphs = [r \in Refs |-> IF r = 1 THEN g ELSE NoGraph]
    /\ pos = BasePos
    /\ G = 1 /\ i = 0
    /\ elements = <<>> /\ centre = <<0, 0>> /\ city_name = "" /\ seed = None
    /\ city_radius = None /\ mt19937 = <<>> /\ rng = NoRng /\ scipy = "idle"
    /\ hc = <<>> /\ plan = <<>>
    /\ IdleAdj /\ IdlePipe

NextAdj == BuildAdj \/ BuildAdjacencyList

SpecAdj == InitAdj /\ [][NextAdj]_vars

-----------------------------------------------------------------------------
(* _apply_llm_directions on one reroute record, over every choice of its labels *)

RouteLabels == {nH, nh, nS, nF, nX, nI}

RouteDirectives ==
    {Directive(List(<<>>), List(<<>>), List(<<>>), List(<<RouteRec(f, t, v, et)>>)) :
        f \in RouteLabels, t \in RouteLabels, v \in RouteLabels,
        et \in {Missing, Str("road")}}

InitRoute ==
    /\ pc = "apply"
    /\ \E g \in BaseGraphs : graphs = [r \in Refs |-> IF r = 1 THEN g ELSE NoGraph]
    /\ pos = BasePos
    /\ G = 1 /\ M = 0
    /\ directions \in RouteDirectives
    /\ groq_directions = NoneV /\ calamity_names = <<>>
    /\ changes = <<>> /\ applied = 0 /\ lid = <<>> /\ nxt = 0 /\ i = 0
    /\ IdleFuzzy /\ IdleOptimize
    /\ IdleBuild

NextRoute == ApplyStart \/ Reroute

SpecRoute == InitRoute /\ [][NextRoute]_vars

-----------------------------------------------------------------------------
(* mitigate from the applier on, over add_nodes records of every kind of type
   string: absent, of the table, "intersection", and one the table does not hold *)

MaxNodeRecs == 3    \* add_nodes records of a directive

nBridge == Str("Bridge")
nIntersectionType == Str("intersection")

TypedNodePool ==
    {NodeRec(nC, Missing, List(<<nH>>), Missing),
     NodeRec(nC, Str("Hospital"), List(<<nH>>), Str("road")),
     NodeRec(Missing, nIntersectionType, List(<<nH>>), Missing),
     NodeRec(Missing, nIntersectionType, List(<<nS>>), Str("road")),
     NodeRec(nC, nBridge, List(<<nX>>), Missing)}

TypedDirectives ==
    UNION {{Directive(List(<<>>), List(<<>>), List(an), List(<<>>)) :
               an \in [1..k -> TypedNodePool]} : k \in 1..MaxNodeRecs}

InitTypes ==
    /\ pc = "apply"
    /\ \E g \in BaseGraphs : graphs = [r \in Refs |-> IF r = 1 THEN g ELSE NoGraph]
    /\ pos = BasePos
    /\ G = 1 /\ M = 0
    /\ directions \in TypedDirectives
    /\ calamity_names \in ThreatLists
    /\ groq_directions = NoneV
    /\ changes = <<>> /\ applied = 0 /\ lid = <<>> /\ nxt = 0 /\ i = 0
    /\ IdleFuzzy /\ IdleOptimize
    /\ IdleBuild

NextTypes == ApplyStart \/ AddNodes \/ ProgrammaticPruning \/ NoFallback

SpecTypes == InitTypes /\ [][NextTypes]_vars

-----------------------------------------------------------------------------
(* Properties *)

\* every non-intersection node reaches every other
NonIntersection(g) == {n \in g.nodes : g.attr[n].infra_type # "intersection"}
Reachable(g) == \A u, v \in NonIntersection(g) : v \in ComponentOf(g, u)

\* the graph FallbackPruner was handed, and whether it ran
PrunerInput == CopyRef(G)
PrunerRan == M = CopyRef(CopyRef(G))

\* C1: the graph _apply_llm_directions returns for a connected base graph is connected
\* over its full node set, whatever the directive removed and added
C1_ReturnedConnected ==
    (pc = "returned" /\ IsConnected(graphs[G])) => IsConnected(graphs[M])

\* the set of connected components of g
ComponentSet(g) == {ComponentOf(g, u) : u \in g.nodes}

\* h is g after a repair: the edges of g as they were, and one new emergency_path edge
\* less than g has components, each between two components of g at their least distance
Repaired(g, h, p) ==
    /\ h.nodes = g.nodes
    /\ \A e \in DOMAIN g.edges : e \in DOMAIN h.edges /\ h.edges[e] = g.edges[e]
    /\ Cardinality(DOMAIN h.edges \ DOMAIN g.edges) = Cardinality(ComponentSet(g)) - 1
    /\ \A e \in DOMAIN h.edges \ DOMAIN g.edges :
          /\ h.edges[e].edge_type = "emergency_path"
          /\ ComponentOf(g, MinOf(e)) # ComponentOf(g, MaxOf(e))
          /\ \A x \in ComponentOf(g, MinOf(e)), y \in ComponentOf(g, MaxOf(e)) :
                Dist2(p, MinOf(e), MaxOf(e)) <= Dist2(p, x, y)
    /\ IsConnected(h)

\* C2: the repair step of apply_optimizations adds exactly c-1 emergency_path edges to a
\* graph of c components, each between a pair of least distance of the two components it
\* joins, and returns a connected graph
C2_RepairAddsLeastEdges ==
    [][pc = "opt_repair" => Repaired(graphs[M], graphs'[M], pos)]_vars

AutoAdded == {k \in 1..Len(opt_changes.edges_added) : opt_changes.edges_added[k].reason = AutoReason}

\* a graph of three components was repaired with two edges
C2_Witness == pc = "opt_done" /\ Cardinality(AutoAdded) = 2

\* C3: when the non-intersection nodes of the graph handed to FallbackPruner reach one
\* another, those of the graph it returns do
C3_PrunerKeepsReachability ==
    (pc = "done" /\ PrunerRan /\ Reachable(graphs[PrunerInput])) => Reachable(graphs[M])

\* C4: no step changes the input graph G, and FallbackPruner does not change the graph
\* it is handed
C4_InputUnchanged ==
    [][/\ G' = G /\ graphs'[G] = graphs[G]
       /\ (pc = "returned" => graphs'[M] = graphs[M])]_vars

\* both functions changed their copy
C4_Witness ==
    /\ pc = "done" /\ PrunerRan
    /\ graphs[PrunerInput] # graphs[G]
    /\ graphs[M] # graphs[PrunerInput]

\* the label v of a record resolves to no node
Unresolved(v) == FuzzyFind(Get(v, Str("")), lid) = None

\* the loop at pc is at a record with a label that resolves to no node
AtUnresolved ==
    \/ pc \in {"remove_edges", "add_edges"} /\ (Unresolved(Rec.from) \/ Unresolved(Rec.to))
    \/ pc = "reroute" /\ (Unresolved(Rec.from) \/ Unresolved(Rec.to) \/ Unresolved(Rec.via))

\* C5: a remove_edges, add_edges or reroute record with a label that resolves to no node
\* leaves the working graph as it is, appends one skip entry and lets the loop go on
C5_UnresolvedSkips ==
    [][AtUnresolved =>
          /\ graphs'[M] = graphs[M]
          /\ Len(changes') = Len(changes) + 1
          /\ SubSeq(changes', 1, Len(changes)) = changes
          /\ IsSkip(changes'[Len(changes')])
          /\ applied' = applied
          /\ pc' # "raised"
          /\ (i < Len(Recs) => pc' = pc /\ i' = i + 1)]_vars

\* a record was skipped and the next one was applied
C5_Witness ==
    /\ pc = "returned" /\ Len(changes) >= 2
    /\ IsSkip(changes[1]) /\ ~IsSkip(changes[2])

\* C6: no exception leaves _apply_llm_directions, whatever the directive
C6_NeverRaises == pc # "raised"

\* the label values a directive refers to
LabelRefs(dir) ==
    UNION {UNION {{ListAt(dir, k)[j].from, ListAt(dir, k)[j].to} :
                     j \in 1..Len(ListAt(dir, k))} : k \in {1, 2, 4}}
    \cup {ListAt(dir, 4)[j].via : j \in 1..Len(ListAt(dir, 4))}
    \cup UNION {{Get(ListAt(dir, 3)[j].connect_to, List(<<>>)).items[c] :
                   c \in 1..Len(Get(ListAt(dir, 3)[j].connect_to, List(<<>>)).items)} :
                j \in 1..Len(ListAt(dir, 3))}

\* every label the directive refers to resolves to no node of G
AllUnresolvable == \A v \in LabelRefs(directions) :
                       FuzzyFind(Get(v, Str("")), BuildLid(graphs[G])) = None

SameNodesAndEdges(g, h) == g.nodes = h.nodes /\ DOMAIN g.edges = DOMAIN h.edges

OnlySkips == \A k \in 1..Len(changes) : IsSkip(changes[k])

C8_FallbackIffBelowThreshold ==
    pc = "done" => /\ PrunerRan <=> applied < FallbackThreshold
                   /\ Attempted(groq_directions) = 0 => PrunerRan

\* three operations were applied and FallbackPruner did not run
C8_Witness == pc = "done" /\ applied = FallbackThreshold /\ ~PrunerRan

NonSkips == {k \in 1..Len(changes) : ~IsSkip(changes[k])}
Skips == {k \in 1..Len(changes) : IsSkip(changes[k])}

\* C9: _apply_llm_directions returns one ChangeLog entry per record, and a count equal to
\* the number of entries that are not skip entries
C9_OneEntryPerRecord ==
    pc = "returned" => /\ Len(changes) = Attempted(directions)
                       /\ applied = Cardinality(NonSkips)
                       /\ applied + Cardinality(Skips) = Attempted(directions)

\* a call returned with applied and skipped records
C9_Witness == pc = "returned" /\ applied >= 1 /\ Cardinality(Skips) >= 1

\* the first of the four rules by which label matches n, 5 when none does
MatchRank(n, label) ==
    IF \E r \in 1..4 : Rule(r, n, NameLower(n), label)
    THEN MinOf({r \in 1..4 : Rule(r, n, NameLower(n), label)})
    ELSE 5

\* C10: for a non-empty name _fuzzy_find returns a node whose label matches by the
\* earliest rule any label matches by, None when no label matches by any rule, and for
\* "hospital #1" the node labelled "Hospital #1"
C10_RulePriority ==
    (pc = "fuzzy_done" /\ name.s # "") =>
        /\ IF \A k \in 1..Len(lid) : MatchRank(name.s, lid[k].label) = 5
           THEN result = None
           ELSE \E k \in 1..Len(lid) :
                   /\ result = lid[k].nid
                   /\ \A m \in 1..Len(lid) :
                         MatchRank(name.s, lid[k].label) <= MatchRank(name.s, lid[m].label)
        /\ (name.s = "hospital #1" /\ "Hospital #1" \in DictKeys(lid)
                /\ "hospital #1" \notin DictKeys(lid))
               => result = DictGet(lid, "Hospital #1")

\* "hospital #1" was looked up with "Hospital #10" ahead of "Hospital #1"
C10_Witness ==
    /\ pc = "fuzzy_done" /\ name = Str("hospital #1") /\ Len(lid) = 2
    /\ lid[1].label = "Hospital #10" /\ lid[2].label = "Hospital #1"
    /\ result = lid[2].nid

-----------------------------------------------------------------------------
(* Properties of the graph builders *)

\* no two non-intersection nodes of g carry the same label
DistinctLabels(g) ==
    \A a, b \in NonIntersection(g) : a # b => g.attr[a].label # g.attr[b].label

\* C11: the graph _build_graph_osm builds never has two non-intersection nodes
\* with the same label, whatever names the elements carry
C11_BuiltLabelsDistinct == pc \in {"osm", "osm_placed", "road_edges", "utility_edges", "built"}
                               => DistinctLabels(graphs[G])

\* C12: the graph _apply_llm_directions returns has no two non-intersection nodes
\* with the same label, whatever labels the add_nodes records supply
C12_AppliedLabelsDistinct ==
    (pc = "returned" /\ DistinctLabels(graphs[G])) => DistinctLabels(graphs[M])

\* C13: two calls of _generate_procedural with the same name and the same seed
\* return the same nodes, labels, types, positions, edges, edge types and weights
C13_SameSeedSameGraph == Len(runs) = 2 => runs[1] = runs[2]

C13_Witness ==
    /\ Len(runs) = 2 /\ seed = 7
    /\ Cardinality(runs[2].G.nodes) >= 5
    /\ \E e \in DOMAIN runs[2].G.edges : runs[2].G.edges[e].edge_type = "power"
    /\ \E e \in DOMAIN runs[2].G.edges : runs[2].G.edges[e].edge_type = "road"

\* C14: once _add_road_edges and _add_utility_edges have run on two or more
\* positioned nodes, every non-intersection node is reachable from every other
C14_TopologyReachable == pc = "built" => Reachable(graphs[G])

AllPairs(S) == {{u, v} : u, v \in S} \ {{u} : u \in S}

\* C15: on 3 nodes at distinct coordinates _add_road_edges takes no side of a
\* triangulation, its nearest-neighbour step joins every node to the other two
\* by road edges, and the graph is connected
C15_ThreeNodesJoined ==
    (pc = "utility_edges" /\ Cardinality(graphs[G].nodes) = 3) =>
        /\ ShortSides(pos, graphs[G].nodes, city_radius, scipy) = {}
        /\ DOMAIN graphs[G].edges = AllPairs(graphs[G].nodes)
        /\ \A e \in DOMAIN graphs[G].edges : graphs[G].edges[e].edge_type = "road"
        /\ IsConnected(graphs[G])

\* three nodes on one line, the road edges built
C15_Witness ==
    /\ pc = "utility_edges" /\ Cardinality(graphs[G].nodes) = 3
    /\ Orient(pos[0], pos[1], pos[2]) = 0
    /\ Cardinality(DOMAIN graphs[G].edges) = 3

\* the edges a run logged under an action, as (from, to, edge_type)
LoggedBy(run, action) ==
    {<<run.changes[k].from, run.changes[k].to, run.changes[k].edge_type>> :
        k \in {j \in 1..Len(run.changes) : run.changes[j].action = action}}

\* C16: two runs of _apply_programmatic_pruning on the same graph with the same
\* threat list remove the same edges, add the same edges and log the same
\* ChangeLog; each run's generator is seeded with 99
C16_PruningReproducible ==
    /\ Len(runs) >= 1 => rng.seed = 99
    /\ Len(runs) = 2 =>
          /\ LoggedBy(runs[1], "removed_edge") = LoggedBy(runs[2], "removed_edge")
          /\ LoggedBy(runs[1], "added_edge") = LoggedBy(runs[2], "added_edge")
          /\ runs[1].M = runs[2].M
          /\ runs[1].changes = runs[2].changes

\* two runs under "flood": a road was taken by the flood rule and a road that
\* reached the comparisons was kept
C16_Witness ==
    /\ Len(runs) = 2
    /\ Threatens(S_flood, calamity_names)
    /\ \E k \in 1..Len(runs[2].changes) :
          runs[2].changes[k].reason = "Road vulnerable to flood damage"
    /\ \E e \in DrawEdges(graphs[G]) : e \in DOMAIN runs[2].M.edges
    /\ LoggedBy(runs[2], "added_edge") # {}

\* the nodes the loop of the adjacency view has passed
Passed(g) == {n \in NonIntersection(g) : \E k \in 1..i : InOrder(g.nodes)[k] = n}

\* nbs lists the non-intersection neighbours of nid, each once, and no other node
ListsNeighbours(g, nid, nbs, dg) ==
    \E order \in Orders(Neighbors(g, nid) \cap NonIntersection(g)) :
        nbs = [k \in 1..Len(order) |-> Entry(g, nid, order[k], dg)]

\* C17: the adjacency view has one key per non-intersection node label and no
\* other key, every list holds the non-intersection neighbours of a node of
\* that label and no intersection, and is in non-decreasing order of distance
C17_AdjacencyView ==
    pc \in {"_build_adj", "build_adjacency_list"} =>
        /\ DOMAIN adj = {graphs[G].attr[n].label : n \in Passed(graphs[G])}
        /\ \A key \in DOMAIN adj :
              /\ \E n \in Passed(graphs[G]) :
                    /\ graphs[G].attr[n].label = key
                    /\ ListsNeighbours(graphs[G], n, adj[key],
                                       IF pc = "_build_adj" THEN 4 ELSE 2)
              /\ \A k \in 1..(Len(adj[key]) - 1) :
                    adj[key][k].distance <= adj[key][k + 1].distance

\* the view of a whole graph: the hospital is next to an intersection and to four
\* other nodes, two of them at the same distance; another node shares its label,
\* and the key holds that later node's list
C17_Witness ==
    /\ pc = "_build_adj" /\ i = Cardinality(graphs[G].nodes)
    /\ HasEdge(graphs[G], 0, 5)
    /\ Len(adj["Hospital #1"]) = 1
    /\ Cardinality(Neighbors(graphs[G], 0)) = 5
    /\ graphs[G].attr[3].label = "Hospital #1"

\* the entry the step has appended to the ChangeLog
Logged == changes'[Len(changes')]

Appended(action) ==
    /\ pc' # "raised" /\ Len(changes') = Len(changes) + 1
    /\ Logged.action = action

\* C18: the removed_edge entry of a removal carries the edge type the edge had in
\* the graph just before it was removed
C18_RemovedTypeLogged ==
    [][(pc = "remove_edges" /\ Appended("removed_edge")) =>
          \A e \in (DOMAIN graphs[M].edges) \ (DOMAIN graphs'[M].edges) :
              Logged.edge_type = Str(graphs[M].edges[e].edge_type)]_vars

\* the node a label of the record at hand resolves to
Resolved(label) == FuzzyFind(Get(label, Str("")), lid)

TypedEdge(g, u, v, et) == HasEdge(g, u, v) /\ g.edges[EdgeKey(u, v)].edge_type = et

\* C19: an applied add_edges record leaves its pair with one edge of the record's
\* type, weighted by the distance between the two nodes' positions, and every
\* other edge as it was
C19_AddedEdgeWeighted ==
    [][(pc = "add_edges" /\ Appended("added_edge")) =>
          /\ TypedEdge(graphs'[M], Resolved(Rec.from), Resolved(Rec.to),
                       Get(Rec.edge_type, Str("emergency")).s)
          /\ graphs'[M].edges[EdgeKey(Resolved(Rec.from), Resolved(Rec.to))].weight
                = Dist2(pos, Resolved(Rec.from), Resolved(Rec.to))
          /\ \A e \in (DOMAIN graphs[M].edges) \ {EdgeKey(Resolved(Rec.from), Resolved(Rec.to))} :
                e \in DOMAIN graphs'[M].edges /\ graphs'[M].edges[e] = graphs[M].edges[e]]_vars

\* C20: a reroute record whose three labels resolve leaves no from-to edge and
\* leaves from-via and via-to edges of the record's type; one with a label that
\* does not resolve leaves the graph as it was and logs reroute_skipped
C20_Rerouted ==
    [][(pc = "reroute" /\ pc' # "raised") =>
          IF Resolved(Rec.from) # None /\ Resolved(Rec.to) # None /\ Resolved(Rec.via) # None
          THEN /\ ~HasEdge(graphs'[M], Resolved(Rec.from), Resolved(Rec.to))
               /\ TypedEdge(graphs'[M], Resolved(Rec.from), Resolved(Rec.via),
                            Get(Rec.edge_type, Str("emergency")).s)
               /\ TypedEdge(graphs'[M], Resolved(Rec.via), Resolved(Rec.to),
                            Get(Rec.edge_type, Str("emergency")).s)
          ELSE graphs'[M] = graphs[M] /\ Appended("reroute_skipped")]_vars

\* the labels of the connect_to list of the record at hand
ConnectLabels == Get(Rec.connect_to, List(<<>>)).items

\* C21: an add_nodes record adds one node under the fresh id nxt and changes no
\* other node, types it with the record's type or Bunker/Shelter, joins it by an
\* edge of the record's edge type to every connect_to label that resolves, and
\* logs added_node whether or not any of them resolves
C21_NodeAdded ==
    [][(pc = "add_nodes" /\ pc' # "raised") =>
          /\ Appended("added_node")
          /\ nxt \notin graphs[M].nodes
          /\ graphs'[M].nodes = graphs[M].nodes \cup {nxt}
          /\ \A n \in graphs[M].nodes : graphs'[M].attr[n] = graphs[M].attr[n]
          /\ graphs'[M].attr[nxt].infra_type = Get(Rec.type, Str("Bunker/Shelter")).s
          /\ \A k \in 1..Len(ConnectLabels) :
                FuzzyFind(ConnectLabels[k], lid') # None =>
                    TypedEdge(graphs'[M], nxt, FuzzyFind(ConnectLabels[k], lid'),
                              Get(Rec.edge_type, Str("emergency")).s)]_vars

\* the nodes the applier has added to its copy
NewNodes == graphs[M].nodes \ graphs[G].nodes

\* a Hospital node was added with a road edge to the hospital, its other
\* connect_to label unresolved; and a node was added with no edge at all
C21_Witness ==
    /\ pc \in {"add_nodes", "reroute", "returned"} /\ M = CopyRef(G)
    /\ \E n \in NewNodes :
          /\ graphs[M].attr[n].infra_type = "Hospital"
          /\ TypedEdge(graphs[M], n, 0, "road")
    /\ \E n \in NewNodes : Neighbors(graphs[M], n) = {}
    /\ Cardinality({k \in 1..Len(changes) : changes[k].action = "added_node"})
          = Cardinality(NewNodes)

\* the node is an intersection
IsIntersection(g, n) == g.attr[n].infra_type = "intersection"

\* C22: the graph _apply_programmatic_pruning returns to mitigate has no edge
\* with an intersection at either end
C22_NoEdgeAtIntersection ==
    (pc = "done" /\ PrunerRan) =>
        \A e \in DOMAIN graphs[M].edges : \A n \in e : ~IsIntersection(graphs[M], n)

\* the keys of INFRASTRUCTURE
InfrastructureTypes ==
    {"Hospital", "Fire Station", "Police Station", "Ambulance Depot", "Bunker/Shelter",
     "Evacuation Point", "Food Service", "Grocery Store", "Water Supply", "Power Plant",
     "Substation", "Telecom Tower", "Water Treatment"}

\* the node's type is of the enumeration and its category the one of that type
WellTyped(a) ==
    /\ a.infra_type \in InfrastructureTypes \cup {"intersection"}
    /\ a.category = IF a.infra_type = "intersection" THEN "road" ELSE CategoryOf(a.infra_type)

\* C27: every node of the base graph and of the mitigated graph has a type of the
\* 13 infrastructure types or intersection, and the category of that type
C27_NodesWellTyped ==
    \A r \in {G} \cup (IF M = 0 THEN {} ELSE {M}) :
        \A n \in graphs[r].nodes : WellTyped(graphs[r].attr[n])

RoadEdges(g) == {e \in DOMAIN g.edges : g.edges[e].edge_type = "road"}

BothTyped(g, e, types) == \A n \in e : g.attr[n].infra_type \in types

\* C23: the graph _apply_programmatic_pruning returns has no road edge between
\* two nodes of the types Grocery Store, Food Service, Telecom Tower, Substation,
\* Water Supply, and no road edge of weight above 5 (25 on squared distances)
C23_NoPlainOrLongRoad ==
    (pc = "done" /\ PrunerRan) =>
        \A e \in RoadEdges(graphs[M]) :
            /\ ~BothTyped(graphs[M], e, {"Grocery Store", "Food Service", "Telecom Tower",
                                         "Substation", "Water Supply"})
            /\ ~(graphs[M].edges[e].weight > 5 * 5)

\* the pruner was handed a road between a grocery store and a substation and a
\* road of weight 6 under "flood", and a road survived it
C23_Witness ==
    /\ pc = "done" /\ PrunerRan
    /\ Threatens(S_flood, calamity_names)
    /\ \E e \in RoadEdges(graphs[PrunerInput]) :
          BothTyped(graphs[PrunerInput], e, {"Grocery Store", "Substation"})
    /\ \E e \in RoadEdges(graphs[PrunerInput]) : graphs[PrunerInput].edges[e].weight = 36
    /\ RoadEdges(graphs[M]) # {}

PowerEdges(g) == {e \in DOMAIN g.edges : g.edges[e].edge_type = "power"}

\* "earthquake" is among the active threat names, in whatever case
EarthquakeActive ==
    \E k \in 1..Len(calamity_names) : Lower(Chars(calamity_names[k])) = S_earthquake

TypedNodes(g, types) == {n \in g.nodes : g.attr[n].infra_type \in types}

AdjacentToOne(g, n, S) == \E s \in S : HasEdge(g, n, s)

\* the pruner logged the removal of the edge e of g
PrunedAway(g, e) ==
    \E k \in 1..Len(changes) :
        /\ changes[k].phase = "programmatic_pruning" /\ changes[k].action = "removed_edge"
        /\ {changes[k].from, changes[k].to} = {Str(g.attr[n].label) : n \in e}

\* C25: in the graph _apply_programmatic_pruning returns every Hospital is next
\* to a Bunker/Shelter or Evacuation Point when there is one, every Fire Station
\* is next to a Hospital when there is one, and an edge of the input that was not
\* removed has the type and weight it had
C25_EmergencyPaths ==
    (pc = "done" /\ PrunerRan) =>
        /\ TypedNodes(graphs[M], {"Bunker/Shelter", "Evacuation Point"}) # {} =>
              \A h \in TypedNodes(graphs[M], {"Hospital"}) :
                  AdjacentToOne(graphs[M], h,
                                TypedNodes(graphs[M], {"Bunker/Shelter", "Evacuation Point"}))
        /\ TypedNodes(graphs[M], {"Hospital"}) # {} =>
              \A f \in TypedNodes(graphs[M], {"Fire Station"}) :
                  AdjacentToOne(graphs[M], f, TypedNodes(graphs[M], {"Hospital"}))
        /\ \A e \in (DOMAIN graphs[PrunerInput].edges) \cap (DOMAIN graphs[M].edges) :
              graphs[M].edges[e] # graphs[PrunerInput].edges[e] =>
                  PrunedAway(graphs[PrunerInput], e)

\* the pruner added an emergency edge for a hospital the directive created, and
\* left the road it found between the first hospital and the shelter
C25_Witness ==
    /\ pc = "done" /\ PrunerRan
    /\ Cardinality(TypedNodes(graphs[M], {"Hospital"})) >= 2
    /\ \E k \in 1..Len(changes) :
          changes[k].phase = "programmatic_pruning" /\ changes[k].action = "added_edge"
    /\ TypedEdge(graphs[M], 0, 1, "road")

\* the edges of g at an intersection of the base graph, with their attributes
AtBaseIntersection(g) ==
    {<<e, g.edges[e]>> : e \in {f \in DOMAIN g.edges :
                                  \E n \in f \cap graphs[G].nodes : IsIntersection(graphs[G], n)}}

\* C26: no record of a directive makes _apply_llm_directions or
\* apply_optimizations add, remove or change an edge at an intersection of the
\* base graph
C26_IntersectionsUntouched ==
    [][(pc \in {"remove_edges", "add_edges", "add_nodes", "reroute", "opt_remove", "opt_add"}) =>
          (AtBaseIntersection(graphs'[M]) = AtBaseIntersection(graphs[M]))]_vars

\* C28: the graph _apply_llm_directions works on never has an edge with the same
\* node at both ends
C28_NoSelfLoop ==
    M # 0 => \A e \in DOMAIN graphs[M].edges : Cardinality(e) = 2

\* the name is empty or holds nothing but blanks
Blank(v) == v.tag = "str" /\ \A k \in 1..Len(Chars(v.s)) : Chars(v.s)[k] = " "

\* C29: _fuzzy_find returns None for a blank name, whatever the dictionary holds
C29_BlankUnresolved == (pc = "fuzzy_done" /\ Blank(name)) => result = None

\* where an entry of the ChangeLog comes from: the four loops of the applier in
\* their order, then the pruner
EntryRank(c) ==
    IF c.phase = "programmatic_pruning" THEN 5
    ELSE CASE c.action \in {"removed_edge", "remove_edge_skipped"} -> 1
           [] c.action \in {"added_edge", "add_edge_skipped"} -> 2
           [] c.action = "added_node" -> 3
           [] c.action \in {"rerouted", "reroute_skipped"} -> 4

\* the label of node n of the working graph resolves to a node of that label
ResolvesByLabel(n) ==
    /\ FuzzyFind(Str(graphs[M].attr[n].label), lid) \in graphs[M].nodes
    /\ graphs[M].attr[FuzzyFind(Str(graphs[M].attr[n].label), lid)].label
          = graphs[M].attr[n].label

====
